---- MODULE Spec2Model ----
(***************************************************************************)
(* LAMP primer hairpin detector: the sequence-analysis core (hairpin.js)   *)
(* and the position-edit handler of the table (ui.js).                     *)
(*                                                                         *)
(* A JavaScript string is modelled as a sequence of one-symbol strings,    *)
(* <<"A","C","G">> for "ACG"; JS indices are 0-based, TLA+ ones 1-based.   *)
(***************************************************************************)
EXTENDS Integers, Sequences, FiniteSets, TLC

VARIABLES
    gene,       \* window.currentGene: the cleaned gene
    primers,    \* window.currentPrimers: the list of primer records
    rendered,   \* TRUE once populatePrimerTable has drawn the edit controls
    lastOp,     \* the operation that produced the state: "init", "analyze", "edit"
    edits,      \* number of position edits made so far (bounded)
    dimers,     \* the dimer list of the last analysis or edit
    runs,       \* analyses run since the last edit (bounded)
    overlapWarning, \* the messages of the overlap popup; none when it is absent
    fn,         \* the pure function a harness specification is exercising
    arg,        \* its input
    ret         \* its result(s) so far

mainVars == <<gene, primers, rendered, lastOp, edits, dimers, runs, overlapWarning>>
vars == <<gene, primers, rendered, lastOp, edits, dimers, runs, overlapWarning,
          fn, arg, ret>>

-----------------------------------------------------------------------------
(* Bounds of the model *)

MaxRevLen == 4      \* longest input of the revcomp harness
MaxBody == 5        \* longest free part of a hairpin harness input
MaxEdits == 1       \* position edits per behaviour
MaxLeftLen == 12    \* longest left fragment of the split harness's dense range
MaxRuns == 2        \* analyses in a row without an edit in between
MaxAdjust == 2      \* position edits per behaviour on a one-primer list
MaxHead == 2        \* longest free 5' part of a dimer harness primer
MaxTail == 2        \* longest free 3' part of a dimer harness primer
MaxTyped == 3       \* longest primer of the binding harness

-----------------------------------------------------------------------------
(* JavaScript strings *)

DNA == {"A", "C", "G", "T"}

\* the symbols the harnesses feed to revcomp: the bases, an ambiguity code
\* and two lowercase letters
Symbols == DNA \cup {"N", "a", "c"}

Min(S) == CHOOSE x \in S : \A y \in S : x <= y
Max(S) == CHOOSE x \in S : \A y \in S : x >= y

\* all strings over alphabet of length lo..hi
Strings(alphabet, lo, hi) == UNION {[1..k -> alphabet] : k \in lo..hi}

\* String.prototype.toUpperCase, one symbol
UpperSym(ch) ==
    CASE ch = "a" -> "A"
      [] ch = "c" -> "C"
      [] ch = "g" -> "G"
      [] ch = "t" -> "T"
      [] ch = "n" -> "N"
      [] OTHER -> ch

toUpperCase(s) == [i \in 1..Len(s) |-> UpperSym(s[i])]

\* s.slice(from, to) for 0 <= from, to (to is clamped to the length)
SliceAbs(s, from, to) ==
    LET t == IF to > Len(s) THEN Len(s) ELSE to
    IN  IF from >= t THEN << >> ELSE SubSeq(s, from + 1, t)

\* an index argument of slice: negative counts from the end, then clamp
SliceIdx(s, i) ==
    IF i < 0 THEN (IF Len(s) + i < 0 THEN 0 ELSE Len(s) + i)
    ELSE (IF i > Len(s) THEN Len(s) ELSE i)

\* s.slice(from, to)
slice(s, from, to) == SliceAbs(s, SliceIdx(s, from), SliceIdx(s, to))

\* s.slice(from)
sliceFrom(s, from) == SliceAbs(s, SliceIdx(s, from), Len(s))

\* haystack.indexOf(needle): the first 0-based index, -1 when absent
indexOf(haystack, needle) ==
    LET hits == {i \in 0..(Len(haystack) - Len(needle)) :
                    SubSeq(haystack, i + 1, i + Len(needle)) = needle}
    IN  IF hits = {} THEN -1 ELSE Min(hits)

-----------------------------------------------------------------------------
(* Reverse complement *)

\* a plausible slip: G is left unmapped
ComplementNoG(base) ==
    CASE base = "A" -> "T"
      [] base = "T" -> "A"
      [] base = "C" -> "G"
      [] OTHER -> base

\* map[base] || base
Complement(base) ==
    CASE base = "A" -> "T"
      [] base = "T" -> "A"
      [] base = "C" -> "G"
      [] base = "G" -> "C"
      [] OTHER -> base

\* a plausible slip: the complement without the reversal
revcompNoReverse(seq) == [i \in 1..Len(seq) |-> Complement(seq[i])]

\* seq.split("").reverse().map(base => map[base] || base).join("")
revcomp(seq) == [i \in 1..Len(seq) |-> Complement(seq[Len(seq) + 1 - i])]

-----------------------------------------------------------------------------
(* Hairpin detection (3' and 5' ends) *)

MaxStem == 6        \* default maxStem
MinStem == 2        \* default minStem
MaxLoop == 12       \* default maxLoop
MinLoop == 3        \* the first loop length tried
ScanLen == 15       \* length of the terminal scan region

\* the value null
Null == [type |-> "null"]

\* the value undefined of a field that was never assigned
Undefined == [type |-> "undefined"]

\* a plausible slip: the window offset is not added back
Hairpin3ResultNoOffset(n, scanStart, stem, rcStem, stemLen, loop, start) ==
    [type |-> "3prime", stemSeq |-> stem, stemRC |-> rcStem,
     stemLength |-> stemLen, loopLength |-> loop,
     pos3PrimeStart |-> n - stemLen, pos3PrimeEnd |-> n,
     posUpstreamStart |-> start, posUpstreamEnd |-> start + stemLen]

\* the object returned on a 3' match
Hairpin3Result(n, scanStart, stem, rcStem, stemLen, loop, start) ==
    [type |-> "3prime", stemSeq |-> stem, stemRC |-> rcStem,
     stemLength |-> stemLen, loopLength |-> loop,
     pos3PrimeStart |-> n - stemLen, pos3PrimeEnd |-> n,
     posUpstreamStart |-> scanStart + start,
     posUpstreamEnd |-> scanStart + start + stemLen]

\* for (let loop = 3; loop <= maxLoop; loop++) of checkHairpin3Prime, from loop on
RECURSIVE Hairpin3Loops(_, _, _, _, _, _)
Hairpin3Loops(scanRegion, n, scanStart, stemLen, maxLoop, loop) ==
    LET stem == sliceFrom(scanRegion, -stemLen)
        rcStem == revcomp(stem)
        searchRegion == slice(scanRegion, 0, -stemLen)
        start == Len(searchRegion) - stemLen - loop
        window == slice(searchRegion, start, start + stemLen)
    IN  IF loop > maxLoop THEN Null
        ELSE IF start < 0 THEN Null
        ELSE IF window = rcStem
             THEN Hairpin3Result(n, scanStart, stem, rcStem, stemLen, loop, start)
        ELSE Hairpin3Loops(scanRegion, n, scanStart, stemLen, maxLoop, loop + 1)

\* for (let stemLen = maxStem; stemLen >= minStem; stemLen--), from stemLen on
RECURSIVE Hairpin3Stems(_, _, _, _, _, _)
Hairpin3Stems(scanRegion, n, scanStart, minStem, maxLoop, stemLen) ==
    IF stemLen < minStem THEN Null
    ELSE LET found == Hairpin3Loops(scanRegion, n, scanStart, stemLen, maxLoop, MinLoop)
         IN  IF found # Null THEN found
             ELSE Hairpin3Stems(scanRegion, n, scanStart, minStem, maxLoop, stemLen - 1)

\* a plausible slip: the whole primer is scanned, not its last 15 symbols
checkHairpin3PrimeWholeWith(primer0, maxStem, minStem, maxLoop) ==
    LET primer == toUpperCase(primer0)
    IN  Hairpin3Stems(primer, Len(primer), 0, minStem, maxLoop, maxStem)

checkHairpin3PrimeWith(primer0, maxStem, minStem, maxLoop) ==
    LET primer == toUpperCase(primer0)
        n == Len(primer)
        scanRegion == IF n > ScanLen THEN sliceFrom(primer, -ScanLen) ELSE primer
        scanStart == IF n > ScanLen THEN n - ScanLen ELSE 0
    IN  Hairpin3Stems(scanRegion, n, scanStart, minStem, maxLoop, maxStem)

\* checkHairpin3Prime(primer) with the default parameters
checkHairpin3Prime(primer) == checkHairpin3PrimeWith(primer, MaxStem, MinStem, MaxLoop)

\* a plausible slip: the downstream range is given with an inclusive end
Hairpin5ResultInclusive(stem, rcStem, stemLen, loop, start, end) ==
    [type |-> "5prime", stemSeq |-> stem, stemRC |-> rcStem,
     stemLength |-> stemLen, loopLength |-> loop,
     pos5PrimeStart |-> 0, pos5PrimeEnd |-> stemLen,
     posDownstreamStart |-> start, posDownstreamEnd |-> end - 1]

\* the object returned on a 5' match
Hairpin5Result(stem, rcStem, stemLen, loop, start, end) ==
    [type |-> "5prime", stemSeq |-> stem, stemRC |-> rcStem,
     stemLength |-> stemLen, loopLength |-> loop,
     pos5PrimeStart |-> 0, pos5PrimeEnd |-> stemLen,
     posDownstreamStart |-> start, posDownstreamEnd |-> end]

\* a plausible slip: a window that ends with the scan region is not tried
RECURSIVE Hairpin5LoopsInside(_, _, _, _)
Hairpin5LoopsInside(scanRegion, stemLen, maxLoop, loop) ==
    LET stem == slice(scanRegion, 0, stemLen)
        rcStem == revcomp(stem)
        start == stemLen + loop
        end == start + stemLen
        window == slice(scanRegion, start, end)
    IN  IF loop > maxLoop THEN Null
        ELSE IF end >= Len(scanRegion) THEN Null
        ELSE IF window = rcStem
             THEN Hairpin5Result(stem, rcStem, stemLen, loop, start, end)
        ELSE Hairpin5LoopsInside(scanRegion, stemLen, maxLoop, loop + 1)

\* for (let loop = 3; loop <= maxLoop; loop++) of checkHairpin5Prime, from loop on
RECURSIVE Hairpin5Loops(_, _, _, _)
Hairpin5Loops(scanRegion, stemLen, maxLoop, loop) ==
    LET stem == slice(scanRegion, 0, stemLen)
        rcStem == revcomp(stem)
        searchStart == stemLen
        start == searchStart + loop
        end == start + stemLen
        window == slice(scanRegion, start, end)
    IN  IF loop > maxLoop THEN Null
        ELSE IF end > Len(scanRegion) THEN Null
        ELSE IF window = rcStem
             THEN Hairpin5Result(stem, rcStem, stemLen, loop, start, end)
        ELSE Hairpin5Loops(scanRegion, stemLen, maxLoop, loop + 1)

\* for (let stemLen = maxStem; stemLen >= minStem; stemLen--), from stemLen on
RECURSIVE Hairpin5Stems(_, _, _, _)
Hairpin5Stems(scanRegion, minStem, maxLoop, stemLen) ==
    IF stemLen < minStem THEN Null
    ELSE LET found == Hairpin5Loops(scanRegion, stemLen, maxLoop, MinLoop)
         IN  IF found # Null THEN found
             ELSE Hairpin5Stems(scanRegion, minStem, maxLoop, stemLen - 1)

\* a plausible slip: the stem lengths are tried from the shortest up
RECURSIVE Hairpin5StemsUp(_, _, _, _)
Hairpin5StemsUp(scanRegion, maxStem, maxLoop, stemLen) ==
    IF stemLen > maxStem THEN Null
    ELSE LET found == Hairpin5Loops(scanRegion, stemLen, maxLoop, MinLoop)
         IN  IF found # Null THEN found
             ELSE Hairpin5StemsUp(scanRegion, maxStem, maxLoop, stemLen + 1)

checkHairpin5PrimeShortestWith(primer0, maxStem, minStem, maxLoop) ==
    LET primer == toUpperCase(primer0)
        n == Len(primer)
        scanRegion == IF n > ScanLen THEN slice(primer, 0, ScanLen) ELSE primer
    IN  Hairpin5StemsUp(scanRegion, maxStem, maxLoop, minStem)

checkHairpin5PrimeWith(primer0, maxStem, minStem, maxLoop) ==
    LET primer == toUpperCase(primer0)
        n == Len(primer)
        scanRegion == IF n > ScanLen THEN slice(primer, 0, ScanLen) ELSE primer
    IN  Hairpin5Stems(scanRegion, minStem, maxLoop, maxStem)

\* checkHairpin5Prime(primer) with the default parameters
checkHairpin5Prime(primer) == checkHairpin5PrimeWith(primer, MaxStem, MinStem, MaxLoop)

-----------------------------------------------------------------------------
(* Split FIP/BIP into F1c+F2 or B1c+B2 *)

MinRight == 15      \* the first right-part length tried
MaxRight == 35      \* the last right-part length tried
LeftMargin == 10    \* the right part stays shorter than the length minus this

NotFound == [found |-> FALSE]

\* a plausible slip: the end of the left range is computed from the right part
SplitForwardWrongEnd(leftPart, rightPart, leftIdx, rightIdx, isFIP) ==
    [found |-> TRUE,
     left |-> leftPart, right |-> rightPart,
     leftType |-> IF isFIP THEN "F1c" ELSE "B1c",
     rightType |-> IF isFIP THEN "F2" ELSE "B2",
     leftStart |-> leftIdx, leftEnd |-> leftIdx + Len(rightPart),
     rightStart |-> rightIdx, rightEnd |-> rightIdx + Len(rightPart)]

\* the result when the right part binds forward and the left part as RC
SplitForward(leftPart, rightPart, leftIdx, rightIdx, isFIP) ==
    [found |-> TRUE,
     left |-> leftPart, right |-> rightPart,
     leftType |-> IF isFIP THEN "F1c" ELSE "B1c",
     rightType |-> IF isFIP THEN "F2" ELSE "B2",
     leftStart |-> leftIdx, leftEnd |-> leftIdx + Len(leftPart),
     rightStart |-> rightIdx, rightEnd |-> rightIdx + Len(rightPart)]

\* a plausible slip: the two parts are not swapped, only their positions
SplitSwappedNoSwap(leftPart, rightPart, leftIdx2, rightIdx2, isFIP) ==
    [found |-> TRUE,
     left |-> leftPart, right |-> rightPart,
     leftType |-> IF isFIP THEN "F1c" ELSE "B1c",
     rightType |-> IF isFIP THEN "F2" ELSE "B2",
     leftStart |-> rightIdx2, leftEnd |-> rightIdx2 + Len(rightPart),
     rightStart |-> leftIdx2, rightEnd |-> leftIdx2 + Len(leftPart)]

\* the result when the left part binds forward and the right part as RC
SplitSwapped(leftPart, rightPart, leftIdx2, rightIdx2, isFIP) ==
    [found |-> TRUE,
     left |-> rightPart, right |-> leftPart,
     leftType |-> IF isFIP THEN "F1c" ELSE "B1c",
     rightType |-> IF isFIP THEN "F2" ELSE "B2",
     leftStart |-> rightIdx2, leftEnd |-> rightIdx2 + Len(rightPart),
     rightStart |-> leftIdx2, rightEnd |-> leftIdx2 + Len(leftPart)]

\* a plausible slip: a left part of exactly 10 symbols is still tried
RECURSIVE SplitFromInclusive(_, _, _, _)
SplitFromInclusive(seq, geneSeq, isFIP, rightLen) ==
    IF ~(rightLen <= MaxRight /\ rightLen <= Len(seq) - LeftMargin) THEN NotFound
    ELSE
    LET leftPart == slice(seq, 0, Len(seq) - rightLen)
        rightPart == sliceFrom(seq, Len(seq) - rightLen)
        rightIdx == indexOf(geneSeq, rightPart)
        leftIdx == indexOf(geneSeq, revcomp(leftPart))
        leftIdx2 == indexOf(geneSeq, leftPart)
        rightIdx2 == indexOf(geneSeq, revcomp(rightPart))
    IN  IF rightIdx # -1 /\ leftIdx # -1
            THEN SplitForward(leftPart, rightPart, leftIdx, rightIdx, isFIP)
        ELSE IF leftIdx2 # -1 /\ rightIdx2 # -1
            THEN SplitSwapped(leftPart, rightPart, leftIdx2, rightIdx2, isFIP)
        ELSE SplitFromInclusive(seq, geneSeq, isFIP, rightLen + 1)

\* a plausible slip: the swapped hypothesis is tried before the forward-right one
RECURSIVE SplitFromSwappedFirst(_, _, _, _)
SplitFromSwappedFirst(seq, geneSeq, isFIP, rightLen) ==
    IF ~(rightLen <= MaxRight /\ rightLen < Len(seq) - LeftMargin) THEN NotFound
    ELSE
    LET leftPart == slice(seq, 0, Len(seq) - rightLen)
        rightPart == sliceFrom(seq, Len(seq) - rightLen)
        rightIdx == indexOf(geneSeq, rightPart)
        leftIdx == indexOf(geneSeq, revcomp(leftPart))
        leftIdx2 == indexOf(geneSeq, leftPart)
        rightIdx2 == indexOf(geneSeq, revcomp(rightPart))
    IN  IF leftIdx2 # -1 /\ rightIdx2 # -1
            THEN SplitSwapped(leftPart, rightPart, leftIdx2, rightIdx2, isFIP)
        ELSE IF rightIdx # -1 /\ leftIdx # -1
            THEN SplitForward(leftPart, rightPart, leftIdx, rightIdx, isFIP)
        ELSE SplitFromSwappedFirst(seq, geneSeq, isFIP, rightLen + 1)

\* for (let rightLen = 15; rightLen <= 35 && rightLen < seq.length - 10; rightLen++),
\* from rightLen on
RECURSIVE SplitFrom(_, _, _, _)
SplitFrom(seq, geneSeq, isFIP, rightLen) ==
    IF ~(rightLen <= MaxRight /\ rightLen < Len(seq) - LeftMargin) THEN NotFound
    ELSE
    LET leftPart == slice(seq, 0, Len(seq) - rightLen)
        rightPart == sliceFrom(seq, Len(seq) - rightLen)
        rightIdx == indexOf(geneSeq, rightPart)
        leftIdx == indexOf(geneSeq, revcomp(leftPart))
        leftIdx2 == indexOf(geneSeq, leftPart)
        rightIdx2 == indexOf(geneSeq, revcomp(rightPart))
    IN  IF rightIdx # -1 /\ leftIdx # -1
            THEN SplitForward(leftPart, rightPart, leftIdx, rightIdx, isFIP)
        ELSE IF leftIdx2 # -1 /\ rightIdx2 # -1
            THEN SplitSwapped(leftPart, rightPart, leftIdx2, rightIdx2, isFIP)
        ELSE SplitFrom(seq, geneSeq, isFIP, rightLen + 1)

splitInnerPrimer(innerPrimer, geneSeq, isFIP) ==
    SplitFrom(toUpperCase(innerPrimer), geneSeq, isFIP, MinRight)

-----------------------------------------------------------------------------
(* Cross-dimer detection *)

MaxMatch == 8       \* the longest 3' end that is tried
MinMatch == 3       \* the default minMatch

\* the record pushed when the 3' end of one primer binds the other
DimerRecord(aName, bName, end3, end3rc, idx, matchLen, direction) ==
    [primer1 |-> aName, primer2 |-> bName,
     primer1_3prime |-> end3, primer1_3prime_rc |-> end3rc,
     bindingPos |-> idx, matchLength |-> matchLen, direction |-> direction]

\* a plausible slip: the search goes on after a hit, to the shortest match
RECURSIVE DimerScanShortest(_, _, _, _, _, _, _)
DimerScanShortest(aName, aSeq, bName, bSeq, minMatch, direction, matchLen) ==
    LET end3 == sliceFrom(aSeq, -matchLen)
        end3rc == revcomp(end3)
        idx == indexOf(bSeq, end3rc)
        shorter == DimerScanShortest(aName, aSeq, bName, bSeq, minMatch,
                                     direction, matchLen - 1)
    IN  IF matchLen < minMatch THEN << >>
        ELSE IF shorter # << >> THEN shorter
        ELSE IF Len(aSeq) >= matchLen /\ idx # -1
            THEN <<DimerRecord(aName, bName, end3, end3rc, idx, matchLen, direction)>>
        ELSE << >>

\* for (let matchLen = 8; matchLen >= minMatch; matchLen--), from matchLen
\* on: the 3' end of a into b
RECURSIVE DimerScan(_, _, _, _, _, _, _)
DimerScan(aName, aSeq, bName, bSeq, minMatch, direction, matchLen) ==
    LET end3 == sliceFrom(aSeq, -matchLen)
        end3rc == revcomp(end3)
        idx == indexOf(bSeq, end3rc)
    IN  IF matchLen < minMatch THEN << >>
        ELSE IF Len(aSeq) >= matchLen /\ idx # -1
            THEN <<DimerRecord(aName, bName, end3, end3rc, idx, matchLen, direction)>>
        ELSE DimerScan(aName, aSeq, bName, bSeq, minMatch, direction, matchLen - 1)

\* a plausible slip: only the 3' end of the first primer is tried
checkDimerOneWay(p1Name, p1Seq0, p2Name, p2Seq0, minMatch) ==
    LET p1Seq == toUpperCase(p1Seq0)
        p2Seq == toUpperCase(p2Seq0)
    IN  DimerScan(p1Name, p1Seq, p2Name, p2Seq, minMatch, "p1_to_p2", MaxMatch)

checkDimerWith(p1Name, p1Seq0, p2Name, p2Seq0, minMatch) ==
    LET p1Seq == toUpperCase(p1Seq0)
        p2Seq == toUpperCase(p2Seq0)
    IN  DimerScan(p1Name, p1Seq, p2Name, p2Seq, minMatch, "p1_to_p2", MaxMatch)
        \o DimerScan(p2Name, p2Seq, p1Name, p1Seq, minMatch, "p2_to_p1", MaxMatch)

\* a plausible slip: the shortest end tried has 4 symbols
checkDimerFromFour(p1Name, p1Seq, p2Name, p2Seq) ==
    checkDimerWith(p1Name, p1Seq, p2Name, p2Seq, MinMatch + 1)

\* checkDimer with the default minMatch
checkDimer(p1Name, p1Seq, p2Name, p2Seq) ==
    checkDimerWith(p1Name, p1Seq, p2Name, p2Seq, MinMatch)

\* a plausible slip: only the first record of a pair is pushed
RECURSIVE DimersInnerFirstOnly(_, _, _)
DimersInnerFirstOnly(ps, i, j) ==
    IF j > Len(ps) THEN << >>
    ELSE LET found == checkDimer(ps[i].name, ps[i].seq, ps[j].name, ps[j].seq)
         IN  (IF Len(found) = 0 THEN << >> ELSE <<found[1]>>)
             \o DimersInnerFirstOnly(ps, i, j + 1)

\* for (let j = i + 1; j < primers.length; j++), from j on
RECURSIVE DimersInner(_, _, _)
DimersInner(ps, i, j) ==
    IF j > Len(ps) THEN << >>
    ELSE checkDimer(ps[i].name, ps[i].seq, ps[j].name, ps[j].seq)
         \o DimersInner(ps, i, j + 1)

\* for (let i = 0; i < primers.length; i++), from i on
RECURSIVE DimersOuter(_, _)
DimersOuter(ps, i) ==
    IF i > Len(ps) THEN << >>
    ELSE DimersInner(ps, i, i + 1) \o DimersOuter(ps, i + 1)

checkAllDimers(ps) == DimersOuter(ps, 1)

-----------------------------------------------------------------------------
(* JavaScript values of the primer records *)

JsNaN == -7001          \* NaN, what parseInt gives for a blank input
JsNull == -7002         \* null in a numeric field
JsUndefined == -7003    \* undefined in a numeric field

UndefinedStr == <<"undefined">>     \* undefined in a string field (left, right)

\* v + d in JavaScript arithmetic
JsAdd(v, d) == IF v = JsNaN THEN JsNaN ELSE v + d

\* an index argument of substring: NaN, null and negatives are 0, then clamp
SubstringIdx(s, v) ==
    IF v \in {JsNaN, JsNull} THEN 0
    ELSE IF v < 0 THEN 0
    ELSE IF v > Len(s) THEN Len(s)
    ELSE v

\* s.substring(a, b): the arguments are clamped, and swapped when a > b
substring(s, a, b) ==
    LET x == SubstringIdx(s, a)
        y == IF b = JsUndefined THEN Len(s) ELSE SubstringIdx(s, b)
    IN  IF x <= y THEN SliceAbs(s, x, y) ELSE SliceAbs(s, y, x)

\* name.toUpperCase() for the names the model uses
UpperName(name) ==
    CASE name = "fip" -> "FIP"
      [] name = "bip" -> "BIP"
      [] OTHER -> name

\* !!(hp3 || hp5)
HasHairpin(hp3, hp5) == IF hp3 # Null \/ hp5 # Null THEN "true" ELSE "false"

-----------------------------------------------------------------------------
(* parsePrimers: the record of a NAME=SEQUENCE line *)

\* a plausible slip: the sequence is kept as typed
ParsedPrimerAsTyped(name, seq) ==
    [name |-> name, seq |-> seq,
     start |-> JsNull, end |-> JsNull, orientation |-> "null", isInner |-> FALSE,
     left |-> UndefinedStr, right |-> UndefinedStr,
     leftType |-> "undefined", rightType |-> "undefined",
     leftStart |-> JsUndefined, leftEnd |-> JsUndefined,
     rightStart |-> JsUndefined, rightEnd |-> JsUndefined,
     hairpin3 |-> Undefined, hairpin5 |-> Undefined, hasHairpin |-> "undefined"]

ParsedPrimer(name, seq) ==
    [name |-> name, seq |-> toUpperCase(seq),
     start |-> JsNull, end |-> JsNull, orientation |-> "null", isInner |-> FALSE,
     \* the fields below do not exist yet
     left |-> UndefinedStr, right |-> UndefinedStr,
     leftType |-> "undefined", rightType |-> "undefined",
     leftStart |-> JsUndefined, leftEnd |-> JsUndefined,
     rightStart |-> JsUndefined, rightEnd |-> JsUndefined,
     hairpin3 |-> Undefined, hairpin5 |-> Undefined, hasHairpin |-> "undefined"]

-----------------------------------------------------------------------------
(* Attach primer positions to the gene *)

\* a plausible slip: the two fragments are stored crossed
AttachSplitCrossed(p, split) ==
    [p EXCEPT !.isInner = TRUE,
              !.left = split.right, !.right = split.left,
              !.leftType = split.leftType, !.rightType = split.rightType,
              !.leftStart = split.leftStart, !.leftEnd = split.leftEnd,
              !.rightStart = split.rightStart, !.rightEnd = split.rightEnd,
              !.hairpin3 = checkHairpin3Prime(p.seq),
              !.hairpin5 = checkHairpin5Prime(p.seq),
              !.hasHairpin = HasHairpin(checkHairpin3Prime(p.seq),
                                        checkHairpin5Prime(p.seq))]

\* a composite primer whose split was found
AttachSplit(p, split) ==
    [p EXCEPT !.isInner = TRUE,
              !.left = split.left, !.right = split.right,
              !.leftType = split.leftType, !.rightType = split.rightType,
              !.leftStart = split.leftStart, !.leftEnd = split.leftEnd,
              !.rightStart = split.rightStart, !.rightEnd = split.rightEnd,
              !.hairpin3 = checkHairpin3Prime(p.seq),
              !.hairpin5 = checkHairpin5Prime(p.seq),
              !.hasHairpin = HasHairpin(checkHairpin3Prime(p.seq),
                                        checkHairpin5Prime(p.seq))]

\* a plausible slip: the failed split leaves position 0, not the sentinel
AttachNotSplitZero(p) ==
    [p EXCEPT !.isInner = TRUE, !.orientation = "not split", !.start = 0, !.end = 0]

\* a plausible slip: the hairpin scans are run on the unsplit primer as well
AttachNotSplitScanned(p) ==
    [p EXCEPT !.isInner = TRUE, !.orientation = "not split", !.start = -1, !.end = -1,
              !.hairpin3 = checkHairpin3Prime(p.seq),
              !.hairpin5 = checkHairpin5Prime(p.seq),
              !.hasHairpin = HasHairpin(checkHairpin3Prime(p.seq),
                                        checkHairpin5Prime(p.seq))]

\* a composite primer whose split was not found
AttachNotSplit(p) ==
    [p EXCEPT !.isInner = TRUE, !.orientation = "not split", !.start = -1, !.end = -1]

\* a plausible slip: the reverse complement is never looked for
AttachSimpleNoRC(g, p) ==
    LET forwardIdx == indexOf(g, p.seq)
        located ==
            IF forwardIdx # -1
                THEN [p EXCEPT !.start = forwardIdx,
                               !.end = forwardIdx + Len(p.seq),
                               !.orientation = "forward"]
            ELSE [p EXCEPT !.start = -1, !.end = -1, !.orientation = "not found"]
    IN  [located EXCEPT !.hairpin3 = checkHairpin3Prime(p.seq),
                        !.hairpin5 = checkHairpin5Prime(p.seq),
                        !.hasHairpin = HasHairpin(checkHairpin3Prime(p.seq),
                                                  checkHairpin5Prime(p.seq))]

\* a plausible slip: a reverse-bound primer is stored as the gene strand reads
AttachSimpleStoreRC(g, p) ==
    LET forwardIdx == indexOf(g, p.seq)
        rcSeq == revcomp(p.seq)
        reverseIdx == indexOf(g, rcSeq)
        located ==
            IF forwardIdx # -1
                THEN [p EXCEPT !.start = forwardIdx,
                               !.end = forwardIdx + Len(p.seq),
                               !.orientation = "forward"]
            ELSE IF reverseIdx # -1
                THEN [p EXCEPT !.start = reverseIdx,
                               !.end = reverseIdx + Len(p.seq),
                               !.orientation = "reverse (RC)",
                               !.seq = rcSeq]
            ELSE [p EXCEPT !.start = -1, !.end = -1, !.orientation = "not found"]
    IN  [located EXCEPT !.hairpin3 = checkHairpin3Prime(p.seq),
                        !.hairpin5 = checkHairpin5Prime(p.seq),
                        !.hasHairpin = HasHairpin(checkHairpin3Prime(p.seq),
                                                  checkHairpin5Prime(p.seq))]

\* a regular primer: forward or reverse complement, then the hairpin scans
AttachSimple(g, p) ==
    LET forwardIdx == indexOf(g, p.seq)
        rcSeq == revcomp(p.seq)
        reverseIdx == indexOf(g, rcSeq)
        located ==
            IF forwardIdx # -1
                THEN [p EXCEPT !.start = forwardIdx,
                               !.end = forwardIdx + Len(p.seq),
                               !.orientation = "forward"]
            ELSE IF reverseIdx # -1
                THEN [p EXCEPT !.start = reverseIdx,
                               !.end = reverseIdx + Len(p.seq),
                               !.orientation = "reverse (RC)"]
            ELSE [p EXCEPT !.start = -1, !.end = -1, !.orientation = "not found"]
    IN  [located EXCEPT !.hairpin3 = checkHairpin3Prime(p.seq),
                        !.hairpin5 = checkHairpin5Prime(p.seq),
                        !.hasHairpin = HasHairpin(checkHairpin3Prime(p.seq),
                                                  checkHairpin5Prime(p.seq))]

\* the body of for (let p of primers), g the uppercased gene
AttachOne(g, p) ==
    LET isFIP == UpperName(p.name) = "FIP"
        isBIP == UpperName(p.name) = "BIP"
        split == splitInnerPrimer(p.seq, g, isFIP)
    IN  IF isFIP \/ isBIP
            THEN IF split.found THEN AttachSplit(p, split) ELSE AttachNotSplit(p)
        ELSE AttachSimple(g, p)

attachPrimerPositions(geneSeq, ps) ==
    [i \in 1..Len(ps) |-> AttachOne(toUpperCase(geneSeq), ps[i])]

\* the value attachPrimerPositions returns: the cross-dimers of the list
attachPrimerPositionsReturn(geneSeq, ps) ==
    checkAllDimers(attachPrimerPositions(geneSeq, ps))

-----------------------------------------------------------------------------
(* Interactive position adjustment *)

\* populatePrimerTable draws the position inputs of this part of the primer
HasControls(p, part) ==
    IF p.isInner
        THEN /\ part \in {"left", "right"}
             /\ p.leftStart # JsUndefined /\ p.leftStart # -1
             /\ p.rightStart # JsUndefined /\ p.rightStart # -1
    ELSE part = "none" /\ p.start # -1

\* the value the input shows before the edit
Displayed(p, part, pos) ==
    CASE part = "left" /\ pos = "start" -> JsAdd(p.leftStart, 1)
      [] part = "left" /\ pos = "end" -> p.leftEnd
      [] part = "right" /\ pos = "start" -> JsAdd(p.rightStart, 1)
      [] part = "right" /\ pos = "end" -> p.rightEnd
      [] part = "none" /\ pos = "start" -> JsAdd(p.start, 1)
      [] part = "none" /\ pos = "end" -> p.end

\* a plausible slip: the left part is taken from the gene as it reads
EditLeftNoRC(g, p, pos, newValue) ==
    LET q == IF pos = "start" THEN [p EXCEPT !.leftStart = JsAdd(newValue, -1)]
                              ELSE [p EXCEPT !.leftEnd = newValue]
    IN  [q EXCEPT !.left = substring(g, q.leftStart, q.leftEnd)]

\* the left part of a FIP/BIP is moved
EditLeft(g, p, pos, newValue) ==
    LET q == IF pos = "start" THEN [p EXCEPT !.leftStart = JsAdd(newValue, -1)]
                              ELSE [p EXCEPT !.leftEnd = newValue]
    IN  [q EXCEPT !.left = revcomp(substring(g, q.leftStart, q.leftEnd))]

\* the right part of a FIP/BIP is moved
EditRight(g, p, pos, newValue) ==
    LET q == IF pos = "start" THEN [p EXCEPT !.rightStart = JsAdd(newValue, -1)]
                              ELSE [p EXCEPT !.rightEnd = newValue]
    IN  [q EXCEPT !.right = substring(g, q.rightStart, q.rightEnd)]

\* a regular primer is moved
EditSimple(g, p, pos, newValue) ==
    LET q == IF pos = "start" THEN [p EXCEPT !.start = JsAdd(newValue, -1)]
                              ELSE [p EXCEPT !.end = newValue]
    IN  IF q.orientation = "forward"
            THEN [q EXCEPT !.seq = substring(g, q.start, q.end)]
        ELSE IF q.orientation = "reverse (RC)"
            THEN [q EXCEPT !.seq = revcomp(substring(g, q.start, q.end))]
        ELSE q

\* a plausible slip: the hairpin results of the old sequence are kept
RescanKeep(p) == p

\* the hairpin detection re-run on the updated primer
Rescan(p) ==
    [p EXCEPT !.hairpin3 = checkHairpin3Prime(p.seq),
              !.hairpin5 = checkHairpin5Prime(p.seq),
              !.hasHairpin = HasHairpin(checkHairpin3Prime(p.seq),
                                        checkHairpin5Prime(p.seq))]

\* handlePositionChange on the primer the input belongs to
handlePositionChange(g, p, part, pos, newValue) ==
    LET moved ==
            IF p.isInner
                THEN LET q == IF part = "left" THEN EditLeft(g, p, pos, newValue)
                              ELSE IF part = "right" THEN EditRight(g, p, pos, newValue)
                              ELSE p
                     IN  [q EXCEPT !.seq = q.left \o q.right]
            ELSE EditSimple(g, p, pos, newValue)
    IN  Rescan(moved)

-----------------------------------------------------------------------------
(* Harness: revcomp applied, and applied again to its own result *)

MainIdle ==
    /\ gene = << >>
    /\ primers = << >>
    /\ rendered = FALSE
    /\ lastOp = "init"
    /\ edits = 0
    /\ dimers = << >>
    /\ runs = 0
    /\ overlapWarning = << >>

RevInputs == Strings(Symbols, 0, MaxRevLen)

InitRevcomp ==
    /\ MainIdle
    /\ fn = "revcomp"
    /\ arg \in RevInputs
    /\ ret = << >>

\* ret holds revcomp(arg), then revcomp(revcomp(arg))
CallRevcomp ==
    /\ fn = "revcomp"
    /\ Len(ret) < 2
    /\ ret' = Append(ret, revcomp(IF ret = << >> THEN arg ELSE ret[Len(ret)]))
    /\ UNCHANGED <<mainVars, fn, arg>>

NextRevcomp == CallRevcomp

SpecRevcomp == InitRevcomp /\ [][NextRevcomp]_vars

\* C1: for every string s over {A,C,G,T}, the empty one included,
\* revcomp(revcomp(s)) = s.
C1_Involution ==
    (fn = "revcomp" /\ Len(ret) = 2 /\ \A i \in 1..Len(arg) : arg[i] \in DNA)
        => ret[2] = arg

C1_Witness ==
    /\ fn = "revcomp"
    /\ Len(ret) = 2
    /\ Len(arg) = MaxRevLen
    /\ \A i \in 1..Len(arg) : arg[i] \in DNA
    /\ ret[1] # arg
    /\ ret[2] = arg

\* C2: revcomp(s) has the length of s; its symbol at index i is the
\* complement of s[n-1-i] for a base and s[n-1-i] itself for any other
\* symbol, lowercase included; a result is produced for every input.
C2_Mirror ==
    (fn = "revcomp" /\ Len(ret) >= 1) =>
        /\ Len(ret[1]) = Len(arg)
        /\ \A i \in 0..(Len(arg) - 1) :
              LET src == arg[(Len(arg) - 1 - i) + 1]
                  out == ret[1][i + 1]
              IN  /\ src = "A" => out = "T"
                  /\ src = "T" => out = "A"
                  /\ src = "C" => out = "G"
                  /\ src = "G" => out = "C"
                  /\ src \notin DNA => out = src

C2_Witness ==
    /\ fn = "revcomp"
    /\ Len(ret) >= 1
    /\ arg = <<"A", "a", "N", "G">>
    /\ ret[1] = <<"C", "N", "a", "T">>

-----------------------------------------------------------------------------
(* Harness: the two hairpin scans applied to one primer *)

\* fixed 5' parts of the harness inputs; the free 3' part follows them
HairpinPrefixes == {
    << >>,
    <<"A","A">>,
    <<"G","G","G","G","T","T","T">>,
    <<"G","G","G","G","G","T","T","T">>,
    <<"G","G","G","G","T","T","T","A","A","A">>,
    <<"A","C","G","T","G","G","G","G","T","T","T","A","A","A">>,
    <<"A","C","G","T","A","C","T","T","T","G">>,
    <<"A","A","A","A","C","C","C","C","C","C","C","C","C","C","C","C">>,
    <<"C","G","T","C","G","T","C","G","T","T","A","C","G">>
}

HairpinInputs ==
    {pre \o body : pre \in HairpinPrefixes, body \in Strings(DNA, 0, MaxBody)}

InitHairpin ==
    /\ MainIdle
    /\ fn = "hairpin"
    /\ arg \in HairpinInputs
    /\ ret = [hp3 |-> Undefined, hp5 |-> Undefined]

CallHairpin3 ==
    /\ fn = "hairpin"
    /\ ret.hp3 = Undefined
    /\ ret' = [ret EXCEPT !.hp3 = checkHairpin3Prime(arg)]
    /\ UNCHANGED <<mainVars, fn, arg>>

CallHairpin5 ==
    /\ fn = "hairpin"
    /\ ret.hp3 # Undefined
    /\ ret.hp5 = Undefined
    /\ ret' = [ret EXCEPT !.hp5 = checkHairpin5Prime(arg)]
    /\ UNCHANGED <<mainVars, fn, arg>>

NextHairpin == CallHairpin3 \/ CallHairpin5

SpecHairpin == InitHairpin /\ [][NextHairpin]_vars

\* s[from, to) in 0-based half-open coordinates, for 0 <= from <= to <= Len(s)
Range(s, from, to) == SubSeq(s, from + 1, to)

\* the last k symbols of s pair with the k symbols that end j symbols before them
Pairs3(s, k, j) ==
    /\ 2 * k + j <= Len(s)
    /\ Range(s, Len(s) - 2 * k - j, Len(s) - k - j)
         = revcomp(Range(s, Len(s) - k, Len(s)))

\* s reads padding + stem + loop + revcomp(stem), 4-symbol stem, loop of l symbols
StemLoopForm(s, l) ==
    /\ Len(s) >= 8 + l
    /\ Range(s, Len(s) - 4, Len(s))
         = revcomp(Range(s, Len(s) - 8 - l, Len(s) - 4 - l))

\* the loop lengths that leave both stem copies inside the scan region
FormLoops == MinLoop..(ScanLen - 8)

\* the loop lengths at which s reads padding + stem + loop + revcomp(stem)
FormsOf(s) == {l \in FormLoops : StemLoopForm(s, l)}

\* C3 as stated: for padding + stem + loop + revcomp(stem) with a 4-symbol
\* stem inside the last 15 symbols, the 3' scan reports stemLength 4, the
\* last 4 symbols as terminal range and the other stem copy as upstream range.
C3_Original ==
    (fn = "hairpin" /\ ret.hp3 # Undefined /\ FormsOf(arg) # {}) =>
        /\ ret.hp3 # Null
        /\ ret.hp3.stemLength = 4
        /\ ret.hp3.pos3PrimeStart = Len(arg) - 4
        /\ ret.hp3.pos3PrimeEnd = Len(arg)
        /\ \E l \in FormsOf(arg) :
              /\ ret.hp3.posUpstreamStart = Len(arg) - 8 - l
              /\ ret.hp3.posUpstreamEnd = Len(arg) - 4 - l

\* a stem of 5 or 6 symbols pairs at some loop length the scan tries
LongerPair(s) ==
    \E k \in 5..MaxStem : \E j \in MinLoop..MaxLoop :
        2 * k + j <= ScanLen /\ Pairs3(s, k, j)

\* C3 amended: for padding + stem + loop + revcomp(stem) with a 4-symbol
\* stem and a loop of 3..7 symbols the 3' scan finds a hairpin with
\* stemLength in 4..6 whose terminal range is the last stemLength symbols;
\* when no stem of 5 or 6 symbols pairs, stemLength is 4 and the upstream
\* range is the stem copy nearest the 3' end (the shortest such loop).
C3_LongestStemFirst ==
    (fn = "hairpin" /\ ret.hp3 # Undefined /\ FormsOf(arg) # {}) =>
        /\ ret.hp3 # Null
        /\ ret.hp3.stemLength \in 4..MaxStem
        /\ ret.hp3.pos3PrimeStart = Len(arg) - ret.hp3.stemLength
        /\ ret.hp3.pos3PrimeEnd = Len(arg)
        /\ ~LongerPair(arg) =>
              /\ ret.hp3.stemLength = 4
              /\ ret.hp3.loopLength = Min(FormsOf(arg))
              /\ ret.hp3.posUpstreamStart = Len(arg) - 8 - Min(FormsOf(arg))
              /\ ret.hp3.posUpstreamEnd = Len(arg) - 4 - Min(FormsOf(arg))

\* a form beyond the scan region's length whose stem of 4 is the one reported
C3_Witness ==
    /\ fn = "hairpin"
    /\ ret.hp3 # Undefined
    /\ Len(arg) > ScanLen
    /\ FormsOf(arg) # {}
    /\ ~LongerPair(arg)
    /\ ret.hp3 # Null
    /\ ret.hp3.stemLength = 4
    /\ ret.hp3.posUpstreamStart > 0

\* 0-based starts of the occurrences of needle in s
Occurrences(s, needle) ==
    {i \in 0..(Len(s) - Len(needle)) : Range(s, i, i + Len(needle)) = needle}

\* start of the 3' scan region, end of the 5' scan region
Window3Start(s) == IF Len(s) > ScanLen THEN Len(s) - ScanLen ELSE 0
Window5End(s) == IF Len(s) > ScanLen THEN ScanLen ELSE Len(s)

\* the partners of the terminal k symbols: occurrences of their reverse
\* complement that do not overlap them
Partners3(s, k) ==
    {i \in Occurrences(s, revcomp(Range(s, Len(s) - k, Len(s)))) : i + k <= Len(s) - k}
Partners5(s, k) ==
    {i \in Occurrences(s, revcomp(Range(s, 0, k))) : i >= k}

StemLens(s) == {k \in MinStem..MaxStem : k <= Len(s)}

\* every partner of a terminal stem lies entirely outside the scan region
AllPartnersOutside3(s) ==
    \A k \in StemLens(s) : \A i \in Partners3(s, k) : i + k <= Window3Start(s)
AllPartnersOutside5(s) ==
    \A k \in StemLens(s) : \A i \in Partners5(s, k) : i >= Window5End(s)

\* C4: both ranges of a 3' result lie in [max(0, n-15), n) and both ranges
\* of a 5' result in [0, min(n, 15)); a sequence whose partners of the
\* terminal stem all lie entirely outside the scan region has no hairpin.
C4_WindowRestriction ==
    (fn = "hairpin") =>
        /\ (ret.hp3 # Undefined /\ ret.hp3 # Null) =>
              /\ Window3Start(arg) <= ret.hp3.posUpstreamStart
              /\ ret.hp3.posUpstreamStart < ret.hp3.posUpstreamEnd
              /\ ret.hp3.posUpstreamEnd <= Len(arg)
              /\ Window3Start(arg) <= ret.hp3.pos3PrimeStart
              /\ ret.hp3.pos3PrimeStart < ret.hp3.pos3PrimeEnd
              /\ ret.hp3.pos3PrimeEnd <= Len(arg)
        /\ (ret.hp5 # Undefined /\ ret.hp5 # Null) =>
              /\ 0 <= ret.hp5.pos5PrimeStart
              /\ ret.hp5.pos5PrimeStart < ret.hp5.pos5PrimeEnd
              /\ ret.hp5.pos5PrimeEnd <= Window5End(arg)
              /\ 0 <= ret.hp5.posDownstreamStart
              /\ ret.hp5.posDownstreamStart < ret.hp5.posDownstreamEnd
              /\ ret.hp5.posDownstreamEnd <= Window5End(arg)
        /\ (ret.hp3 # Undefined /\ AllPartnersOutside3(arg)) => ret.hp3 = Null
        /\ (ret.hp5 # Undefined /\ AllPartnersOutside5(arg)) => ret.hp5 = Null

\* a primer longer than the scan region whose 3' stem has a partner, all of
\* them outside the region, next to a 5' hairpin that was found
C4_Witness ==
    /\ fn = "hairpin"
    /\ ret.hp3 # Undefined
    /\ ret.hp5 # Undefined
    /\ Len(arg) > ScanLen
    /\ \E k \in StemLens(arg) : Partners3(arg, k) # {}
    /\ AllPartnersOutside3(arg)
    /\ ret.hp3 = Null
    /\ ret.hp5 # Null

-----------------------------------------------------------------------------
(* Harness: splitInnerPrimer applied to one composite primer and one gene *)

\* the first m symbols of unit repeated
Rep(unit, m) == [i \in 1..m |-> unit[((i - 1) % Len(unit)) + 1]]

SplitUnits == {<<"A">>, <<"A","T">>, <<"A","C","G">>, <<"G","G","T","C","A">>}

\* the left fragments L: short ones the loop never reaches, and long ones
LeftFragments ==
    {Rep(u, m) : u \in SplitUnits, m \in {5} \cup (10..MaxLeftLen) \cup {21}}

\* the 20-symbol right fragments R
RightFragments ==
    {h \o Rep(u, 20 - Len(h)) : h \in {<< >>, <<"A">>}, u \in SplitUnits \cup {<<"T">>}}

\* gene "XXXX" + revcomp(L) + "YY" + R: R binds forward, L as reverse complement
GeneForwardRight(L, R) == <<"X","X","X","X">> \o revcomp(L) \o <<"Y","Y">> \o R

\* gene "XXXX" + L + "YY" + revcomp(R): L binds forward, R as reverse complement
GeneForwardLeft(L, R) == <<"X","X","X","X">> \o L \o <<"Y","Y">> \o revcomp(R)

\* one composite primer L + R on each of the two genes, under either hint
SplitInputsOf(L, R) ==
    {[innerPrimer |-> L \o R, gene |-> g, isFIP |-> f] :
        g \in {GeneForwardRight(L, R), GeneForwardLeft(L, R)}, f \in BOOLEAN}

\* right fragments at the ends of the range of right-part lengths
EdgeRightFragments ==
    {Rep(u, m) : u \in {<<"T">>, <<"A","C">>}, m \in {14, 15, 35, 36}}

\* a primer and a gene where the swapped hypothesis holds at 15 and the
\* forward-right one only at 17
CrossPrimer == Rep(<<"G","G","T","C","A">>, 13) \o Rep(<<"A","C">>, 17)
CrossGene ==
    <<"X","X","X","X">> \o SubSeq(CrossPrimer, 1, 15)
    \o <<"Y","Y">> \o revcomp(SubSeq(CrossPrimer, 16, 30))
    \o <<"Y","Y">> \o SubSeq(CrossPrimer, 14, 30)
    \o <<"Y","Y">> \o revcomp(SubSeq(CrossPrimer, 1, 13))

SplitInputs ==
    UNION {SplitInputsOf(L, R) : L \in LeftFragments, R \in RightFragments}
    \cup UNION {SplitInputsOf(Rep(<<"G","G","T","C","A">>, 11), R) :
                    R \in EdgeRightFragments}
    \cup {[innerPrimer |-> CrossPrimer, gene |-> CrossGene, isFIP |-> f] :
            f \in BOOLEAN}

InitSplit ==
    /\ MainIdle
    /\ fn = "split"
    /\ arg \in SplitInputs
    /\ ret = Undefined

CallSplit ==
    /\ fn = "split"
    /\ ret = Undefined
    /\ ret' = splitInnerPrimer(arg.innerPrimer, arg.gene, arg.isFIP)
    /\ UNCHANGED <<mainVars, fn, arg>>

NextSplit == CallSplit

SpecSplit == InitSplit /\ [][NextSplit]_vars

\* the composite primer of the call, as the function sees it
SplitSeq == toUpperCase(arg.innerPrimer)

\* its trailing 20 symbols R and the part L before them
SplitR == Range(SplitSeq, Len(SplitSeq) - 20, Len(SplitSeq))
SplitL == Range(SplitSeq, 0, Len(SplitSeq) - 20)

\* the call is on gene "XXXX" + revcomp(L) + "YY" + R and primer L + R
ForwardRightForm ==
    /\ fn = "split"
    /\ Len(arg.innerPrimer) >= 20
    /\ arg.gene = GeneForwardRight(SplitL, SplitR)

\* a right part of r symbols is a valid split of seq on g under either hypothesis
ValidAt(seq, g, r) ==
    LET leftPart == Range(seq, 0, Len(seq) - r)
        rightPart == Range(seq, Len(seq) - r, Len(seq))
    IN  \/ Occurrences(g, rightPart) # {} /\ Occurrences(g, revcomp(leftPart)) # {}
        \/ Occurrences(g, leftPart) # {} /\ Occurrences(g, revcomp(rightPart)) # {}

\* C5 as stated: for every L and 20-symbol R, on gene "XXXX" + revcomp(L) +
\* "YY" + R the primer L + R splits with right = R, left = L, the left range
\* at revcomp(L) and the right range at R.
C5_Original ==
    (ForwardRightForm /\ ret # Undefined) =>
        /\ ret.found
        /\ ret.right = SplitR
        /\ ret.left = SplitL
        /\ ret.leftStart = 4
        /\ ret.leftEnd = 4 + Len(SplitL)
        /\ ret.rightStart \in Occurrences(arg.gene, SplitR)
        /\ ret.rightEnd = ret.rightStart + 20

\* no right part shorter than R is a valid split
NoShorterSplit ==
    \A r \in MinRight..19 :
        r < Len(SplitSeq) => ~ValidAt(SplitSeq, arg.gene, r)

\* C5 amended: for every L of at least 11 symbols and 20-symbol R such that
\* no right part of 15..19 symbols is a valid split, the primer L + R on
\* gene "XXXX" + revcomp(L) + "YY" + R splits with right = R, left = L, the
\* left range [4, 4 + |L|) at revcomp(L) and the right range at the first
\* occurrence of R, which is 6 + |L| unless R also occurs inside revcomp(L).
C5_SplitCorrect ==
    (ForwardRightForm /\ ret # Undefined /\ Len(SplitL) >= 11 /\ NoShorterSplit) =>
        /\ ret.found
        /\ ret.right = SplitR
        /\ ret.left = SplitL
        /\ ret.leftStart = 4
        /\ ret.leftEnd = 4 + Len(SplitL)
        /\ ret.rightStart = Min(Occurrences(arg.gene, SplitR))
        /\ ret.rightEnd = ret.rightStart + 20
        /\ Occurrences(revcomp(SplitL), SplitR) = {} => ret.rightStart = 6 + Len(SplitL)

C5_Witness ==
    /\ ForwardRightForm
    /\ ret # Undefined
    /\ Len(SplitL) >= 11
    /\ Len(SplitL) # 20
    /\ NoShorterSplit
    /\ ret.found
    /\ ret.left = SplitL
    /\ ret.right = SplitR
    /\ ret.rightStart = 6 + Len(SplitL)

\* C6: whenever the split is found, the right fragment is in the gene at its
\* first occurrence [rightStart, rightEnd), the reverse complement of the
\* left fragment is in the gene at its first occurrence [leftStart, leftEnd),
\* and the types are F1c/F2 for FIP and B1c/B2 otherwise, under the
\* forward-right hypothesis and under the swapped one.
C6_FoundBinds ==
    (fn = "split" /\ ret # Undefined /\ ret.found) =>
        /\ Occurrences(arg.gene, ret.right) # {}
        /\ ret.rightStart = Min(Occurrences(arg.gene, ret.right))
        /\ ret.rightEnd = ret.rightStart + Len(ret.right)
        /\ Occurrences(arg.gene, revcomp(ret.left)) # {}
        /\ ret.leftStart = Min(Occurrences(arg.gene, revcomp(ret.left)))
        /\ ret.leftEnd = ret.leftStart + Len(ret.left)
        /\ ret.leftType = (IF arg.isFIP THEN "F1c" ELSE "B1c")
        /\ ret.rightType = (IF arg.isFIP THEN "F2" ELSE "B2")
        /\ \/ SplitSeq = ret.left \o ret.right
           \/ SplitSeq = ret.right \o ret.left

\* a split found under the swapped hypothesis: the returned left fragment is
\* the primer's tail
C6_Witness ==
    /\ fn = "split"
    /\ ret # Undefined
    /\ ret.found
    /\ ~arg.isFIP
    /\ SplitSeq = ret.right \o ret.left
    /\ SplitSeq # ret.left \o ret.right
    /\ ret.leftType = "B1c"
    /\ Range(arg.gene, ret.leftStart, ret.leftEnd) = revcomp(ret.left)

-----------------------------------------------------------------------------
(* The page: one gene and one primer list are analysed, then positions are  *)
(* edited through the table and the analysis may be run again.              *)

\* AACCCTT G GATTACAGGCT TC CCATGGTTAACGTCA TGCAGTC
TheGene ==
    <<"A","A","C","C","C","T","T","G","G","A","T","T","A","C","A","G","G","C","T","T","C","C","C","A","T","G","G","T","T","A","A","C","G","T","C","A","T","G","C","A","G","T","C">>

\* the two fragments of the gene the composite primers are built on
FragmentOne == <<"G","A","T","T","A","C","A","G","G","C","T">>
FragmentTwo == <<"C","C","A","T","G","G","T","T","A","A","C","G","T","C","A">>

\* NAME=SEQUENCE lines as typed
F3Line == <<"F3", <<"a","a","c","c","c","T","T">>>>
B3Line == <<"B3", <<"G","A","C","T","G","C","A">>>>
LoopLine == <<"LoopF", <<"G","G","G","G","T","T","T","C","C","C","C">>>>
FIPLine == <<"FIP", revcomp(FragmentOne) \o FragmentTwo>>
BIPLine == <<"BIP", FragmentOne \o revcomp(FragmentTwo)>>
ShortFIPLine == <<"fip", <<"G","G","G","G","T","T","T","C","C","C","C">>>>
LongFIPLine == <<"FIP", <<"A","A","A","A","A","A","A","A","A","A","A","A">> \o FragmentTwo>>
LoopBLine == <<"LoopB", <<"A","A","G","G","G","T","T">>>>
B2Line == <<"B2", <<"G","G","T","T","A","A","C">>>>
B1Line == <<"B1", <<"A","A","G","C","C","T","G">>>>

PrimerTexts == {
    << >>,
    <<F3Line, B3Line, LoopLine>>,
    <<FIPLine, F3Line>>,
    <<BIPLine, LoopLine>>,
    <<ShortFIPLine, B3Line>>,
    <<LongFIPLine, F3Line>>,
    <<FIPLine, BIPLine>>,
    <<F3Line, LoopBLine, B2Line>>,
    <<F3Line, LoopBLine, B2Line, B1Line>>
}

\* parsePrimers
parsePrimers(text) == [i \in 1..Len(text) |-> ParsedPrimer(text[i][1], text[i][2])]

\* cleanSequence: uppercase, then everything but A, C, G, T is dropped
cleanSequence(seq) == SelectSeq(toUpperCase(seq), LAMBDA ch : ch \in DNA)

Idle == [none |-> TRUE]

Init ==
    /\ gene = cleanSequence(TheGene)
    /\ primers \in {parsePrimers(text) : text \in PrimerTexts}
    /\ rendered = FALSE
    /\ lastOp = "init"
    /\ edits = 0
    /\ dimers = << >>
    /\ runs = 0
    /\ overlapWarning = << >>
    /\ fn = "none"
    /\ arg = Idle
    /\ ret = Idle

\* runAnalysis from attachPrimerPositions on: positions, then the table
Analyze ==
    /\ fn = "none"
    /\ runs < MaxRuns
    /\ primers' = attachPrimerPositions(gene, primers)
    /\ dimers' = attachPrimerPositionsReturn(gene, primers)
    /\ rendered' = TRUE
    /\ lastOp' = "analyze"
    /\ runs' = runs + 1
    /\ UNCHANGED <<gene, edits, overlapWarning, fn, arg, ret>>

\* a < b on position fields: false against NaN and undefined, null counts as 0
JsLess(a, b) ==
    /\ a \notin {JsNaN, JsUndefined}
    /\ b \notin {JsNaN, JsUndefined}
    /\ (IF a = JsNull THEN 0 ELSE a) < (IF b = JsNull THEN 0 ELSE b)

\* ranges [start1, end1) and [start2, end2) overlap
rangesOverlap(start1, end1, start2, end2) ==
    JsLess(start1, end2) /\ JsLess(start2, end1)

\* the ranges a primer contributes to the overlap check, left before right
OverlapRanges(p) ==
    IF p.isInner
    THEN (IF p.leftStart # -1
          THEN <<[start |-> p.leftStart, end |-> p.leftEnd, part |-> p.leftType]>>
          ELSE << >>)
         \o
         (IF p.rightStart # -1
          THEN <<[start |-> p.rightStart, end |-> p.rightEnd, part |-> p.rightType]>>
          ELSE << >>)
    ELSE IF p.start # -1
         THEN <<[start |-> p.start, end |-> p.end, part |-> "null"]>>
         ELSE << >>

\* the message "<changed> overlaps with <comp>", kept as its four parts
OverlapMessage(changedPrimer, r1, p, r2) ==
    [changed |-> changedPrimer.name, changedPart |-> r1.part,
     comp |-> p.name, compPart |-> r2.part]

\* the messages for one range of the changed primer against the other's ranges
RECURSIVE OverlapsOfRange(_, _, _, _, _)
OverlapsOfRange(changedPrimer, r1, p, compRanges, j) ==
    IF j > Len(compRanges) THEN << >>
    ELSE (IF rangesOverlap(r1.start, r1.end, compRanges[j].start, compRanges[j].end)
          THEN <<OverlapMessage(changedPrimer, r1, p, compRanges[j])>>
          ELSE << >>)
         \o OverlapsOfRange(changedPrimer, r1, p, compRanges, j + 1)

\* the messages for the changed primer against one other primer
RECURSIVE OverlapsOfPrimer(_, _, _, _)
OverlapsOfPrimer(changedPrimer, changedRanges, p, i) ==
    IF i > Len(changedRanges) THEN << >>
    ELSE OverlapsOfRange(changedPrimer, changedRanges[i], p, OverlapRanges(p), 1)
         \o OverlapsOfPrimer(changedPrimer, changedRanges, p, i + 1)

\* the messages for the changed primer against every primer from idx on
RECURSIVE OverlapsFrom(_, _, _)
OverlapsFrom(ps, changedIdx, idx) ==
    IF idx > Len(ps) THEN << >>
    ELSE (IF idx = changedIdx THEN << >>
          ELSE OverlapsOfPrimer(ps[changedIdx], OverlapRanges(ps[changedIdx]),
                                ps[idx], 1))
         \o OverlapsFrom(ps, changedIdx, idx + 1)

\* checkPrimerOverlaps: the popup after the check, its messages when some
\* range of the changed primer overlaps another primer's, none otherwise
checkPrimerOverlaps(ps, changedIdx) == OverlapsFrom(ps, changedIdx, 1)

\* what the user may type into a position input showing cur
EditValues(cur) ==
    {JsAdd(cur, -2), cur, JsAdd(cur, 1), 1, Len(gene) + 2, JsNaN}

\* the change event of one position input, while fewer than maxEdits were made
EditWithin(maxEdits) ==
    /\ fn = "none"
    /\ rendered
    /\ edits < maxEdits
    /\ \E idx \in 1..Len(primers), part \in {"left", "right", "none"},
          pos \in {"start", "end"} :
          /\ HasControls(primers[idx], part)
          /\ \E newValue \in EditValues(Displayed(primers[idx], part, pos)) :
                primers' = [primers EXCEPT
                    ![idx] = handlePositionChange(gene, primers[idx], part, pos, newValue)]
          /\ overlapWarning' = checkPrimerOverlaps(primers', idx)
    /\ dimers' = checkAllDimers(primers')
    /\ lastOp' = "edit"
    /\ edits' = edits + 1
    /\ runs' = 0
    /\ UNCHANGED <<gene, rendered, fn, arg, ret>>

Edit == EditWithin(MaxEdits)

Next == Analyze \/ Edit

Spec == Init /\ [][Next]_vars

\* the primer is a FIP or a BIP
IsComposite(p) == UpperName(p.name) \in {"FIP", "BIP"}

\* the right-part lengths the split tries on seq
CandidateLens(seq) == {r \in MinRight..MaxRight : r < Len(seq) - LeftMargin}

\* no candidate split of seq is valid on the gene
NoValidSplit(seq) == \A r \in CandidateLens(seq) : ~ValidAt(seq, gene, r)

\* the primer went through the regular-primer branch of the analysis
SimpleProcessed(p) ==
    /\ p.orientation \in {"forward", "reverse (RC)", "not found"}
    /\ p.hairpin3 # Undefined
    /\ p.hairpin5 # Undefined

\* C7: when no candidate split of a FIP/BIP is valid, splitInnerPrimer
\* returns found = false and the analysis marks the primer "not split" with
\* start = end = -1 and goes on with the remaining primers.
C7_SplitFailure ==
    lastOp = "analyze" =>
        \A i \in 1..Len(primers) :
            (IsComposite(primers[i]) /\ NoValidSplit(primers[i].seq)) =>
                /\ ~splitInnerPrimer(primers[i].seq, gene,
                                     UpperName(primers[i].name) = "FIP").found
                /\ primers[i].orientation = "not split"
                /\ primers[i].start = -1
                /\ primers[i].end = -1
                /\ \A j \in 1..Len(primers) :
                      ~IsComposite(primers[j]) => SimpleProcessed(primers[j])

\* a FIP with candidate splits, none valid, ahead of a regular primer that
\* was located
C7_Witness ==
    /\ lastOp = "analyze"
    /\ Len(primers) = 2
    /\ IsComposite(primers[1])
    /\ CandidateLens(primers[1].seq) # {}
    /\ NoValidSplit(primers[1].seq)
    /\ primers[1].orientation = "not split"
    /\ ~IsComposite(primers[2])
    /\ primers[2].orientation = "forward"

\* C8: after the analysis every FIP/BIP whose split was not found has
\* leftStart, leftEnd, rightStart and rightEnd at the sentinel -1.
C8_UnboundSentinel ==
    lastOp = "analyze" =>
        \A i \in 1..Len(primers) :
            (IsComposite(primers[i]) /\ NoValidSplit(primers[i].seq)) =>
                /\ primers[i].leftStart = -1
                /\ primers[i].leftEnd = -1
                /\ primers[i].rightStart = -1
                /\ primers[i].rightEnd = -1

\* C9: the analysis gives a regular primer orientation "forward" and the
\* first index of seq when seq is in the gene, else "reverse (RC)" and the
\* first index of revcomp(seq) when that is in the gene, else "not found"
\* and start = end = -1; a bound primer has end = start + length of seq.
C9_Binding ==
    lastOp = "analyze" =>
        \A i \in 1..Len(primers) :
            LET p == primers[i]
                fwd == Occurrences(gene, p.seq)
                rev == Occurrences(gene, revcomp(p.seq))
            IN  ~IsComposite(p) =>
                    IF fwd # {}
                        THEN /\ p.orientation = "forward"
                             /\ p.start = Min(fwd)
                             /\ p.end = p.start + Len(p.seq)
                    ELSE IF rev # {}
                        THEN /\ p.orientation = "reverse (RC)"
                             /\ p.start = Min(rev)
                             /\ p.end = p.start + Len(p.seq)
                    ELSE /\ p.orientation = "not found"
                         /\ p.start = -1
                         /\ p.end = -1

\* one analysis that bound a primer forward, one as reverse complement and
\* found no place for a third
C9_Witness ==
    /\ lastOp = "analyze"
    /\ \E i, j, k \in 1..Len(primers) :
          /\ primers[i].orientation = "forward"
          /\ primers[i].start = 0
          /\ primers[j].orientation = "reverse (RC)"
          /\ primers[j].start > 0
          /\ primers[j].seq = revcomp(Range(gene, primers[j].start, primers[j].end))
          /\ primers[k].orientation = "not found"
          /\ primers[k].start = -1

\* a stored hairpin result, null when the field is absent
Stored(h) == IF h = Undefined THEN Null ELSE h

\* C10: after any analyses and position edits every primer's hairpin3 is
\* checkHairpin3Prime of its current seq and its hairpin5 is
\* checkHairpin5Prime of its current seq, absent when the scan finds nothing.
C10_HairpinsCurrent ==
    lastOp # "init" =>
        \A i \in 1..Len(primers) :
            /\ Stored(primers[i].hairpin3) = checkHairpin3Prime(primers[i].seq)
            /\ Stored(primers[i].hairpin5) = checkHairpin5Prime(primers[i].seq)

-----------------------------------------------------------------------------
(* Analysing twice *)

\* C11: a second analysis of the same gene and primer list, with no edit in
\* between, leaves every primer field as the first analysis left it and
\* returns a dimer list equal to the first one's.
C11_AnalyzeIdempotent ==
    [][(lastOp = "analyze" /\ lastOp' = "analyze")
          => (primers' = primers /\ dimers' = dimers)]_vars

\* a second analysis in a row of a list with a split FIP, a split BIP and
\* dimers between them
C11_Witness ==
    /\ lastOp = "analyze"
    /\ runs = 2
    /\ \E i, j \in 1..Len(primers) :
          /\ primers[i].leftType = "F1c"
          /\ primers[j].leftType = "B1c"
    /\ dimers # << >>

-----------------------------------------------------------------------------
(* The page with a single regular primer, whose positions are adjusted      *)
(* several times in a row.                                                  *)

AdjustTexts == {<<F3Line>>, <<B3Line>>}

InitAdjust ==
    /\ gene = cleanSequence(TheGene)
    /\ primers \in {parsePrimers(text) : text \in AdjustTexts}
    /\ rendered = FALSE
    /\ lastOp = "init"
    /\ edits = 0
    /\ dimers = << >>
    /\ runs = 0
    /\ overlapWarning = << >>
    /\ fn = "none"
    /\ arg = Idle
    /\ ret = Idle

Adjust == EditWithin(MaxAdjust)

NextAdjust == Analyze \/ Adjust

SpecAdjust == InitAdjust /\ [][NextAdjust]_vars

\* this step is a position edit that lowers the end coordinate of the
\* forward-bound regular primer i, of at least 2 symbols, by 2
EndLoweredByTwo(i) ==
    /\ lastOp' = "edit"
    /\ ~primers[i].isInner
    /\ primers[i].orientation = "forward"
    /\ Len(primers[i].seq) >= 2
    /\ primers[i].end # JsNaN
    /\ primers'[i].end = primers[i].end - 2

\* hairpin3, hairpin5 and hasHairpin of p are fresh scans of its seq
FreshScans(p) ==
    /\ p.hairpin3 = checkHairpin3Prime(p.seq)
    /\ p.hairpin5 = checkHairpin5Prime(p.seq)
    /\ p.hasHairpin = (IF p.hairpin3 = Null /\ p.hairpin5 = Null
                          THEN "false" ELSE "true")

\* the range of p is well formed: 0 <= start <= end
WellFormedRange(p) ==
    /\ p.start >= 0
    /\ p.start <= p.end

\* the well-formed range [start, end) of p lies in the gene
RangeInGene(p) ==
    /\ WellFormedRange(p)
    /\ p.end <= Len(gene)

-----------------------------------------------------------------------------
(* Ranges after edits *)

\* a and b are not numbers with b < a
Ordered(a, b) == ~(a # JsNaN /\ b # JsNaN /\ b < a)

\* the regular primer p is bound to the gene
BoundSimple(p) == ~p.isInner /\ p.orientation \in {"forward", "reverse (RC)"}

\* the FIP/BIP p has the two ranges of a split that was found
BoundInner(p) ==
    /\ p.isInner
    /\ p.leftStart \notin {JsUndefined, -1}
    /\ p.rightStart \notin {JsUndefined, -1}

\* C13: after any sequence of analyses and position edits every bound range
\* satisfies start <= end (an edit that would leave end < start is refused
\* and changes nothing).
C13_RangesOrdered ==
    \A i \in 1..Len(primers) :
        /\ BoundSimple(primers[i]) => Ordered(primers[i].start, primers[i].end)
        /\ BoundInner(primers[i]) =>
              /\ Ordered(primers[i].leftStart, primers[i].leftEnd)
              /\ Ordered(primers[i].rightStart, primers[i].rightEnd)

-----------------------------------------------------------------------------
(* Harness: checkDimer applied to one pair of primers *)

\* the 3' end of the first primer of the pairs below, and its reverse complement
EndSix == <<"A","C","G","T","A","C">>
SiteSix == <<"G","T","A","C","G","T">>

\* what precedes the binding site in the second primer
SiteLeads == {
    <<"A">>,
    <<"T","T">>,
    <<"G","T","A","C","G","T","A">>
}

\* first primers that end in ACGTAC, second primers that hold GTACGT inside
SitePairs ==
    {[p1Seq |-> head \o EndSix, p2Seq |-> lead \o SiteSix \o tail] :
        head \in Strings(DNA, 0, MaxHead),
        lead \in SiteLeads,
        tail \in Strings(DNA, 1, MaxTail)}

\* second primers of the free pairs
FreeSeconds == {
    << >>,
    <<"G","T">>,
    <<"A","C","G","T">>,
    <<"T","T","T","G","G","G","T","T","T","G","G","G">>,
    <<"G","T","A","C","G","T","A","C">>
}

\* any short first primer against a few second primers
FreePairs ==
    {[p1Seq |-> a, p2Seq |-> b] : a \in Strings(DNA, 0, MaxHead + 2), b \in FreeSeconds}

DimerInputs == SitePairs \cup FreePairs

InitDimer ==
    /\ MainIdle
    /\ fn = "dimer"
    /\ arg \in DimerInputs
    /\ ret = Undefined

CallDimer ==
    /\ fn = "dimer"
    /\ ret = Undefined
    /\ ret' = [dimers |-> checkDimer("P1", arg.p1Seq, "P2", arg.p2Seq)]
    /\ UNCHANGED <<mainVars, fn, arg>>

NextDimer == CallDimer

SpecDimer == InitDimer /\ [][NextDimer]_vars

\* the last k symbols of s
LastK(s, k) == SubSeq(s, Len(s) - k + 1, Len(s))

\* the lengths k at which the 3' end of a binds b
MatchLens(a, b) ==
    {k \in MinMatch..MaxMatch :
        k <= Len(a) /\ Occurrences(b, revcomp(LastK(a, k))) # {}}

\* the records of ret with this direction
RecordsOf(direction) == SelectSeq(ret.dimers, LAMBDA d : d.direction = direction)

\* the records of one direction are as the claim says: a the primer whose
\* 3' end is tried, b the other one
DirectionAsClaimed(direction, aName, a, bName, b) ==
    LET ks == MatchLens(a, b)
        recs == RecordsOf(direction)
    IN  IF ks = {} THEN recs = << >>
        ELSE /\ Len(recs) = 1
             /\ recs[1].matchLength = Max(ks)
             /\ recs[1].bindingPos = Min(Occurrences(b, revcomp(LastK(a, Max(ks)))))
             /\ recs[1].primer1_3prime = LastK(a, Max(ks))
             /\ recs[1].primer1_3prime_rc = revcomp(LastK(a, Max(ks)))
             /\ recs[1].primer1 = aName
             /\ recs[1].primer2 = bName

\* C14: for each direction of checkDimer with the default minMatch, one
\* record is emitted with matchLength the largest k in 3..8, k <= length of
\* A, such that revcomp of A's last k symbols occurs in B, bindingPos the
\* first index of that occurrence, primer1_3prime A's last k symbols and
\* primer1_3prime_rc its reverse complement; no record when there is no such
\* k; never more than one record per direction.
C14_LongestMatch ==
    (fn = "dimer" /\ ret # Undefined) =>
        /\ DirectionAsClaimed("p1_to_p2", "P1", arg.p1Seq, "P2", arg.p2Seq)
        /\ DirectionAsClaimed("p2_to_p1", "P2", arg.p2Seq, "P1", arg.p1Seq)
        /\ Len(ret.dimers) = Len(RecordsOf("p1_to_p2")) + Len(RecordsOf("p2_to_p1"))

\* a pair with a record in each direction, the first one at a length below 8
\* where shorter ends bind as well and the site occurs twice
C14_Witness ==
    /\ fn = "dimer"
    /\ ret # Undefined
    /\ Len(ret.dimers) = 2
    /\ ret.dimers[1].direction = "p1_to_p2"
    /\ ret.dimers[2].direction = "p2_to_p1"
    /\ ret.dimers[1].matchLength \in 4..7
    /\ Cardinality(MatchLens(arg.p1Seq, arg.p2Seq)) >= 2
    /\ Cardinality(Occurrences(arg.p2Seq, ret.dimers[1].primer1_3prime_rc)) >= 2

\* p1 ends in ACGTAC and p2 holds GTACGT at an internal position
SitePair(p1, p2) ==
    /\ Len(p1) >= 6
    /\ LastK(p1, 6) = EndSix
    /\ \E i \in Occurrences(p2, SiteSix) : i > 0 /\ i + 6 < Len(p2)

\* C15 as stated: for P1 ending in ACGTAC and P2 holding GTACGT inside,
\* checkDimer returns exactly one record, with matchLength 6 and bindingPos
\* the index of GTACGT in P2.
C15_Original ==
    (fn = "dimer" /\ ret # Undefined /\ SitePair(arg.p1Seq, arg.p2Seq)) =>
        /\ Len(ret.dimers) = 1
        /\ ret.dimers[1].matchLength = 6
        /\ ret.dimers[1].bindingPos \in Occurrences(arg.p2Seq, SiteSix)

\* the reverse complement of the last 7 symbols of p1 is not in p2
NoLongerEnd(p1, p2) ==
    Len(p1) = 6 \/ Occurrences(p2, revcomp(LastK(p1, 7))) = {}

\* C15: for P1 ending in ACGTAC and P2 holding GTACGT inside, checkDimer
\* returns exactly one record for the direction P1 into P2, with matchLength
\* at least 6; matchLength is 6 and bindingPos the first index of GTACGT in
\* P2 when the reverse complement of P1's last 7 symbols is not in P2; and
\* that record is the only one exactly when no 3' end of P2 of 3 to 8
\* symbols has its reverse complement in P1.
C15_SiteDimer ==
    (fn = "dimer" /\ ret # Undefined /\ SitePair(arg.p1Seq, arg.p2Seq)) =>
        LET recs == RecordsOf("p1_to_p2")
        IN  /\ Len(recs) = 1
            /\ ret.dimers[1] = recs[1]
            /\ recs[1].matchLength >= 6
            /\ NoLongerEnd(arg.p1Seq, arg.p2Seq) =>
                  /\ recs[1].matchLength = 6
                  /\ recs[1].bindingPos = Min(Occurrences(arg.p2Seq, SiteSix))
            /\ (Len(ret.dimers) = 1) <=> (MatchLens(arg.p2Seq, arg.p1Seq) = {})

\* a first primer of more than 6 symbols whose last 6 only bind, at an
\* internal site, a second primer whose own 3' end binds nothing
C15_Witness ==
    /\ fn = "dimer"
    /\ ret # Undefined
    /\ SitePair(arg.p1Seq, arg.p2Seq)
    /\ Len(arg.p1Seq) > 6
    /\ Len(ret.dimers) = 1
    /\ ret.dimers[1].matchLength = 6
    /\ ret.dimers[1].bindingPos > 0

-----------------------------------------------------------------------------
(* All cross-dimers of the list *)

\* the index pairs i < j of a list of n primers
IndexPairs(n) == {pr \in (1..n) \X (1..n) : pr[1] < pr[2]}

\* pair a comes before pair b in lexicographic order
PairBefore(a, b) == a[1] < b[1] \/ (a[1] = b[1] /\ a[2] < b[2])

\* the index pairs i < j in lexicographic order
OrderedPairs(n) ==
    [k \in 1..Cardinality(IndexPairs(n)) |->
        CHOOSE pr \in IndexPairs(n) :
            Cardinality({q \in IndexPairs(n) : PairBefore(q, pr)}) = k - 1]

\* checkDimer of the pairs from the k-th on, one after the other
RECURSIVE PairDimersFrom(_, _, _)
PairDimersFrom(ps, prs, k) ==
    IF k > Len(prs) THEN << >>
    ELSE checkDimer(ps[prs[k][1]].name, ps[prs[k][1]].seq,
                    ps[prs[k][2]].name, ps[prs[k][2]].seq)
         \o PairDimersFrom(ps, prs, k + 1)

\* C16: the dimer list is the concatenation, over all index pairs i < j in
\* lexicographic order, of checkDimer on the current full seq of primers i
\* and j (the whole composite sequence of a FIP/BIP), the i-into-j record
\* before the j-into-i one; no other pair is checked, nothing is merged or
\* dropped.
C16_AllPairsInOrder ==
    lastOp # "init" =>
        /\ dimers = PairDimersFrom(primers, OrderedPairs(Len(primers)), 1)
        /\ \A k \in 1..Len(dimers) :
              \E i, j \in 1..Len(primers) :
                  /\ i < j
                  /\ \/ /\ dimers[k].direction = "p1_to_p2"
                        /\ dimers[k].primer1 = primers[i].name
                        /\ dimers[k].primer2 = primers[j].name
                        /\ dimers[k].primer1_3prime =
                              LastK(primers[i].seq, dimers[k].matchLength)
                     \/ /\ dimers[k].direction = "p2_to_p1"
                        /\ dimers[k].primer1 = primers[j].name
                        /\ dimers[k].primer2 = primers[i].name
                        /\ dimers[k].primer1_3prime =
                              LastK(primers[j].seq, dimers[k].matchLength)

\* four primers whose pairs (1,2), (1,4) and (2,3) give records, in that
\* order, the pair (1,2) in both directions
C16_Witness ==
    /\ lastOp = "analyze"
    /\ Len(primers) = 4
    /\ Len(dimers) = 5
    /\ dimers[1].direction = "p1_to_p2" /\ dimers[1].primer1 = primers[1].name
    /\ dimers[2].direction = "p2_to_p1" /\ dimers[2].primer1 = primers[2].name
    /\ dimers[3].primer1 = primers[1].name /\ dimers[3].primer2 = primers[4].name
    /\ dimers[4].primer1 = primers[2].name /\ dimers[4].primer2 = primers[3].name
    /\ dimers[5].primer1 = primers[3].name /\ dimers[5].primer2 = primers[2].name

\* a split FIP and a split BIP that bind each other over 8 symbols that
\* straddle the two parts of the BIP's composite sequence
C16_WitnessComposite ==
    /\ lastOp = "analyze"
    /\ \E k \in 1..Len(dimers) :
          /\ dimers[k].primer1 = "FIP"
          /\ dimers[k].primer2 = "BIP"
          /\ dimers[k].matchLength = 8

-----------------------------------------------------------------------------
(* Harness: one regular primer located on a gene, handed to                 *)
(* attachPrimerPositions as typed, handed to it in uppercase, and entered   *)
(* through the page (cleanSequence, parsePrimers, attachPrimerPositions).   *)

\* genes as pasted
TypedGenes == {
    <<"C","C","A","G","T","T","C">>,
    <<"c","C","a","G","T","T","c">>
}

\* primers as typed
TypedSeqs == Strings({"A", "C", "a", "c"}, 1, MaxTyped)

\* a primer record holding name and seq only, as a caller of the core builds it
BareRecord(name, seq) == [ParsedPrimer(name, seq) EXCEPT !.seq = seq]

InitLocate ==
    /\ MainIdle
    /\ fn = "locate"
    /\ arg \in {[gene |-> g, seq |-> t] : g \in TypedGenes, t \in TypedSeqs}
    /\ ret = [raw |-> Undefined, upper |-> Undefined, page |-> Undefined]

\* attachPrimerPositions on the record with seq as typed
CallAttachRaw ==
    /\ fn = "locate"
    /\ ret.raw = Undefined
    /\ ret' = [ret EXCEPT !.raw =
                  attachPrimerPositions(arg.gene, <<BareRecord("P", arg.seq)>>)[1]]
    /\ UNCHANGED <<mainVars, fn, arg>>

\* attachPrimerPositions on the record with seq in uppercase
CallAttachUpper ==
    /\ fn = "locate"
    /\ ret.upper = Undefined
    /\ ret' = [ret EXCEPT !.upper =
                  attachPrimerPositions(arg.gene,
                                        <<BareRecord("P", toUpperCase(arg.seq))>>)[1]]
    /\ UNCHANGED <<mainVars, fn, arg>>

\* runAnalysis on the pasted gene and the line P=seq as typed
CallRunAnalysis ==
    /\ fn = "locate"
    /\ ret.page = Undefined
    /\ ret' = [ret EXCEPT !.page =
                  attachPrimerPositions(cleanSequence(arg.gene),
                                        parsePrimers(<<<<"P", arg.seq>>>>))[1]]
    /\ UNCHANGED <<mainVars, fn, arg>>

NextLocate == CallAttachRaw \/ CallAttachUpper \/ CallRunAnalysis

SpecLocate == InitLocate /\ [][NextLocate]_vars

\* where the primer was bound
Binding(p) == <<p.start, p.end, p.orientation>>

\* C17 as stated: the analysis gives a regular primer the same start, end
\* and orientation whether its seq is supplied in uppercase or in lowercase.
C17_Original ==
    (fn = "locate" /\ ret.raw # Undefined /\ ret.upper # Undefined) =>
        Binding(ret.raw) = Binding(ret.upper)

\* C17: a regular primer entered through parsePrimers gets the same start,
\* end and orientation in whatever case it was typed, namely those of its
\* uppercase form, because parsePrimers stores seq in uppercase and the gene
\* is compared in uppercase; attachPrimerPositions itself compares seq as
\* it is given.
C17_CaseInsensitivePage ==
    (fn = "locate" /\ ret.page # Undefined) =>
        /\ ret.page.seq = toUpperCase(arg.seq)
        /\ ret.upper # Undefined => Binding(ret.page) = Binding(ret.upper)
        /\ LET G == toUpperCase(arg.gene)
               fwd == Occurrences(G, toUpperCase(arg.seq))
               rev == Occurrences(G, revcomp(toUpperCase(arg.seq)))
           IN  Binding(ret.page) =
                   IF fwd # {}
                       THEN <<Min(fwd), Min(fwd) + Len(arg.seq), "forward">>
                   ELSE IF rev # {}
                       THEN <<Min(rev), Min(rev) + Len(arg.seq), "reverse (RC)">>
                   ELSE <<-1, -1, "not found">>

\* a primer typed in lowercase on a gene pasted in mixed case: bound as
\* reverse complement through the page, not found when handed over as typed
C17_Witness ==
    /\ fn = "locate"
    /\ ret.raw # Undefined /\ ret.upper # Undefined /\ ret.page # Undefined
    /\ arg.seq # toUpperCase(arg.seq)
    /\ arg.gene # toUpperCase(arg.gene)
    /\ ret.page.orientation = "reverse (RC)"
    /\ ret.upper.orientation = "reverse (RC)"
    /\ ret.raw.orientation = "not found"

-----------------------------------------------------------------------------
(* Lengths of the two parts of a split *)

\* C18: in every successful split of a FIP/BIP each of the two returned
\* parts, left and right, has between 15 and 35 symbols.
C18_PartLengths ==
    (fn = "split" /\ ret # Undefined /\ ret.found) =>
        /\ Len(ret.left) \in MinRight..MaxRight
        /\ Len(ret.right) \in MinRight..MaxRight

-----------------------------------------------------------------------------
(* Order of the hairpin search, and the shape of its results *)

\* the window of the 3' scan and of the 5' scan
Window3(s) == SubSeq(s, Window3Start(s) + 1, Len(s))
Window5(s) == SubSeq(s, 1, Window5End(s))

\* in window w, the stemLen symbols that end loop symbols before the 3' stem
\* are the reverse complement of the stem
Anchored3(w, stemLen, loop) ==
    /\ 2 * stemLen + loop <= Len(w)
    /\ Range(w, Len(w) - 2 * stemLen - loop, Len(w) - stemLen - loop)
           = revcomp(LastK(w, stemLen))

\* in window w, the stemLen symbols that start at stemLen + loop are the
\* reverse complement of the 5' stem
Anchored5(w, stemLen, loop) ==
    /\ 2 * stemLen + loop <= Len(w)
    /\ Range(w, stemLen + loop, 2 * stemLen + loop) = revcomp(Range(w, 0, stemLen))

\* the pairs (stemLen, loop) of the default search that match
Matches3(s) ==
    {pr \in (MinStem..MaxStem) \X (MinLoop..MaxLoop) : Anchored3(Window3(s), pr[1], pr[2])}
Matches5(s) ==
    {pr \in (MinStem..MaxStem) \X (MinLoop..MaxLoop) : Anchored5(Window5(s), pr[1], pr[2])}

\* pair a is tried before pair b: longer stem, or same stem and shorter loop
TriedBefore(a, b) == a[1] > b[1] \/ (a[1] = b[1] /\ a[2] < b[2])

\* result r is the match of the first pair of ms in search order, none when
\* ms is empty
FirstOf(r, ms) ==
    IF ms = {} THEN r = Null
    ELSE /\ r # Null
         /\ <<r.stemLength, r.loopLength>> \in ms
         /\ \A pr \in ms : ~TriedBefore(pr, <<r.stemLength, r.loopLength>>)

\* C19: checkHairpin3Prime and checkHairpin5Prime each return the match of
\* the first pair (stemLen, loop), stemLen from maxStem down to minStem and
\* loop from 3 up to maxLoop within a stem length, at which the anchored
\* candidate equals the reverse complement of the terminal stem; they return
\* none exactly when no pair that fits in the window matches.
C19_SearchOrder ==
    fn = "hairpin" =>
        /\ ret.hp3 # Undefined => FirstOf(ret.hp3, Matches3(arg))
        /\ ret.hp5 # Undefined => FirstOf(ret.hp5, Matches5(arg))

\* a primer with a match at each end, where the 3' search had a longer loop
\* of the same stem and a shorter stem with a shorter loop to pass over, and
\* the 5' search a shorter stem with a shorter loop
C19_Witness ==
    /\ fn = "hairpin"
    /\ ret.hp3 \notin {Undefined, Null}
    /\ ret.hp5 \notin {Undefined, Null}
    /\ \E pr \in Matches3(arg) : pr[1] = ret.hp3.stemLength /\ pr[2] > ret.hp3.loopLength
    /\ \E pr \in Matches3(arg) : pr[1] < ret.hp3.stemLength /\ pr[2] < ret.hp3.loopLength
    /\ \E pr \in Matches5(arg) : pr[1] < ret.hp5.stemLength /\ pr[2] < ret.hp5.loopLength

\* the 3' result r of sequence s is well formed in the coordinates of s
WellFormed3(r, s) ==
    /\ r.stemLength \in MinStem..MaxStem
    /\ r.loopLength \in MinLoop..MaxLoop
    /\ r.pos3PrimeEnd = Len(s)
    /\ r.pos3PrimeStart = Len(s) - r.stemLength
    /\ r.posUpstreamEnd = r.pos3PrimeStart - r.loopLength
    /\ r.posUpstreamStart = r.posUpstreamEnd - r.stemLength
    /\ r.posUpstreamStart >= 0
    /\ Range(s, r.posUpstreamStart, r.posUpstreamEnd)
           = revcomp(Range(s, r.pos3PrimeStart, Len(s)))

\* the 5' result r of sequence s is well formed in the coordinates of s
WellFormed5(r, s) ==
    /\ r.stemLength \in MinStem..MaxStem
    /\ r.loopLength \in MinLoop..MaxLoop
    /\ r.pos5PrimeStart = 0
    /\ r.pos5PrimeEnd = r.stemLength
    /\ r.posDownstreamStart = r.stemLength + r.loopLength
    /\ r.posDownstreamEnd = r.posDownstreamStart + r.stemLength
    /\ r.posDownstreamEnd <= Len(s)
    /\ Range(s, r.posDownstreamStart, r.posDownstreamEnd)
           = revcomp(Range(s, 0, r.stemLength))

\* C20: every hairpin result returned with the default parameters for a
\* sequence s of length n is well formed in the coordinates of s: stemLength
\* in 2..6, loopLength in 3..12; 3': pos3PrimeEnd = n, pos3PrimeStart =
\* n - stemLength, posUpstreamEnd = pos3PrimeStart - loopLength,
\* posUpstreamStart = posUpstreamEnd - stemLength >= 0, and the upstream
\* range holds the reverse complement of the 3' stem; 5': pos5PrimeStart = 0,
\* pos5PrimeEnd = stemLength, posDownstreamStart = stemLength + loopLength,
\* posDownstreamEnd = posDownstreamStart + stemLength <= n, and the
\* downstream range holds the reverse complement of the 5' stem.
C20_WellFormed ==
    fn = "hairpin" =>
        /\ ret.hp3 \notin {Undefined, Null} => WellFormed3(ret.hp3, arg)
        /\ ret.hp5 \notin {Undefined, Null} => WellFormed5(ret.hp5, arg)

\* a primer of more than 15 symbols with a result at each end, the 3' one
\* with its upstream range past the start of the primer
C20_Witness ==
    /\ fn = "hairpin"
    /\ Len(arg) > ScanLen
    /\ ret.hp3 \notin {Undefined, Null}
    /\ ret.hp5 \notin {Undefined, Null}
    /\ ret.hp3.posUpstreamStart > Len(arg) - ScanLen
    /\ ret.hp3.loopLength > MinLoop
    /\ ret.hp5.posDownstreamEnd < Len(arg)

-----------------------------------------------------------------------------
(* Which splits are tried, and which one is returned *)

\* the right-part lengths r in 15..35 that leave a left part of at least
\* least symbols
LensLeaving(seq, least) == {r \in 15..35 : Len(seq) - r >= least}

\* the right part of r symbols binds forward and the left part as reverse complement
ForwardValidAt(seq, g, r) ==
    /\ Occurrences(g, Range(seq, Len(seq) - r, Len(seq))) # {}
    /\ Occurrences(g, revcomp(Range(seq, 0, Len(seq) - r))) # {}

\* the left part binds forward and the right part of r symbols as reverse complement
SwappedValidAt(seq, g, r) ==
    /\ Occurrences(g, Range(seq, 0, Len(seq) - r)) # {}
    /\ Occurrences(g, revcomp(Range(seq, Len(seq) - r, Len(seq)))) # {}

\* C21 as stated: the right-part lengths tested are those in 15..35 that
\* leave a left part of at least 10 symbols, so a primer whose only valid
\* split leaves a left part of exactly 10 symbols is reported as found.
C21_Original ==
    (fn = "split" /\ ret # Undefined) =>
        (ret.found <=> \E r \in LensLeaving(SplitSeq, 10) : ValidAt(SplitSeq, arg.gene, r))

\* C21: splitInnerPrimer tests exactly the right-part lengths r with
\* 15 <= r <= 35 that leave a left part of at least 11 symbols: a split is
\* found exactly when one of them is valid, and a primer whose only valid
\* split leaves a left part of exactly 10 symbols is reported as not found.
C21_TestedLengths ==
    (fn = "split" /\ ret # Undefined) =>
        /\ ret.found <=> \E r \in LensLeaving(SplitSeq, 11) : ValidAt(SplitSeq, arg.gene, r)
        /\ ret.found =>
              /\ Len(ret.left) + Len(ret.right) = Len(SplitSeq)
              /\ \E r \in LensLeaving(SplitSeq, 11) :
                    /\ ValidAt(SplitSeq, arg.gene, r)
                    /\ r \in {Len(ret.left), Len(ret.right)}

\* a primer of 30 symbols whose only valid split, 10 + 20, is not tried
C21_Witness ==
    /\ fn = "split"
    /\ ret # Undefined
    /\ Len(SplitSeq) = 30
    /\ ValidAt(SplitSeq, arg.gene, 20)
    /\ \A r \in 15..19 : ~ValidAt(SplitSeq, arg.gene, r)
    /\ ~ret.found

\* right parts of 35 and of 36 symbols: the first is the last length tried
C21_WitnessLongRight ==
    /\ fn = "split"
    /\ ret # Undefined
    /\ Len(SplitSeq) = 47
    /\ ValidAt(SplitSeq, arg.gene, 36)
    /\ ~ret.found

\* the valid lengths among those tried
ValidLens(seq, g) == {r \in LensLeaving(seq, 11) : ValidAt(seq, g, r)}

\* C22: when several candidate splits are valid, the one returned has the
\* smallest right-part length valid under either hypothesis; at that length
\* the forward-right hypothesis is preferred to the swapped one; a swapped
\* match at a smaller length beats a forward-right match at a larger one.
C22_SmallestFirst ==
    (fn = "split" /\ ret # Undefined /\ ValidLens(SplitSeq, arg.gene) # {}) =>
        LET r == Min(ValidLens(SplitSeq, arg.gene))
            leftPart == Range(SplitSeq, 0, Len(SplitSeq) - r)
            rightPart == Range(SplitSeq, Len(SplitSeq) - r, Len(SplitSeq))
        IN  /\ ret.found
            /\ IF ForwardValidAt(SplitSeq, arg.gene, r)
                   THEN /\ ret.left = leftPart
                        /\ ret.right = rightPart
                        /\ ret.rightStart = Min(Occurrences(arg.gene, rightPart))
                   ELSE /\ ret.left = rightPart
                        /\ ret.right = leftPart
                        /\ ret.rightStart = Min(Occurrences(arg.gene, leftPart))

\* the swapped hypothesis holds at 15 and the forward-right one only from 17
\* on: the swapped split at 15 is returned
C22_Witness ==
    /\ fn = "split"
    /\ ret # Undefined
    /\ ret.found
    /\ SwappedValidAt(SplitSeq, arg.gene, 15)
    /\ ~ForwardValidAt(SplitSeq, arg.gene, 15)
    /\ ForwardValidAt(SplitSeq, arg.gene, 17)
    /\ Len(ret.left) = 15
    /\ ret.left = Range(SplitSeq, Len(SplitSeq) - 15, Len(SplitSeq))

\* both hypotheses hold at the smallest valid length and differ in what
\* they return: the forward-right split is returned
C22_WitnessTie ==
    /\ fn = "split"
    /\ ret # Undefined
    /\ ret.found
    /\ ForwardValidAt(SplitSeq, arg.gene, Len(ret.right))
    /\ SwappedValidAt(SplitSeq, arg.gene, Len(ret.right))
    /\ ret.left \o ret.right = SplitSeq
    /\ ret.right \o ret.left # SplitSeq
    /\ Len(ret.left) # Len(ret.right)

-----------------------------------------------------------------------------
(* The fragments stored by a successful split *)

\* the analysis has just split the composite primer p
JustSplit(p) ==
    /\ lastOp = "analyze"
    /\ IsComposite(p)
    /\ ValidLens(p.seq, gene) # {}

\* the split of p was found under the forward-right hypothesis
SplitForwardRight(p) ==
    ForwardValidAt(p.seq, gene, Min(ValidLens(p.seq, gene)))

\* C23 as stated: right after the analysis has split a composite primer,
\* its stored left fragment followed by its stored right fragment is its seq.
C23_Original ==
    \A i \in 1..Len(primers) :
        JustSplit(primers[i]) => primers[i].left \o primers[i].right = primers[i].seq

\* C23: right after the analysis has split a composite primer, its seq is
\* the stored left fragment followed by the stored right one when the split
\* was found under the forward-right hypothesis, and the stored right
\* fragment followed by the stored left one when it was found under the
\* swapped hypothesis.
C23_Reconstruction ==
    \A i \in 1..Len(primers) :
        JustSplit(primers[i]) =>
            /\ primers[i].left # UndefinedStr
            /\ primers[i].right # UndefinedStr
            /\ IF SplitForwardRight(primers[i])
                   THEN primers[i].left \o primers[i].right = primers[i].seq
                   ELSE primers[i].right \o primers[i].left = primers[i].seq

\* a FIP split under the forward-right hypothesis next to a BIP split under
\* the swapped one, whose left + right is not its seq
C23_Witness ==
    /\ lastOp = "analyze"
    /\ \E i, j \in 1..Len(primers) :
          /\ JustSplit(primers[i]) /\ SplitForwardRight(primers[i])
          /\ primers[i].left \o primers[i].right = primers[i].seq
          /\ JustSplit(primers[j]) /\ ~SplitForwardRight(primers[j])
          /\ primers[j].right \o primers[j].left = primers[j].seq
          /\ primers[j].left \o primers[j].right # primers[j].seq

-----------------------------------------------------------------------------
(* What a failed split leaves alone *)

\* the fields the claim lists are the same in p and q
SameFragmentsAndScans(p, q) ==
    /\ q.hairpin3 = p.hairpin3
    /\ q.hairpin5 = p.hairpin5
    /\ q.hasHairpin = p.hasHairpin
    /\ q.left = p.left
    /\ q.right = p.right
    /\ q.leftStart = p.leftStart /\ q.leftEnd = p.leftEnd
    /\ q.rightStart = p.rightStart /\ q.rightEnd = p.rightEnd

\* C24: when the analysis fails to split a composite primer it runs no
\* hairpin scan for it: hairpin3, hairpin5 and hasHairpin keep the values
\* they had before the call (absent on a fresh record), and so do left,
\* right and the left and right ranges.
C24_FailedSplitFrame ==
    [][lastOp' = "analyze" =>
          \A i \in 1..Len(primers) :
              (IsComposite(primers[i]) /\ ValidLens(primers[i].seq, gene) = {}) =>
                  /\ primers'[i].orientation = "not split"
                  /\ SameFragmentsAndScans(primers[i], primers'[i])]_vars

\* a fresh composite primer that is not split and has no hairpin fields,
\* though a scan of its seq would find a hairpin
C24_Witness ==
    /\ lastOp = "analyze"
    /\ edits = 0
    /\ \E i \in 1..Len(primers) :
          /\ primers[i].orientation = "not split"
          /\ primers[i].hairpin3 = Undefined
          /\ primers[i].hasHairpin = "undefined"
          /\ primers[i].left = UndefinedStr
          /\ primers[i].leftStart = JsUndefined
          /\ checkHairpin3Prime(primers[i].seq) # Null

\* a composite primer that was split, then edited, and is not split by the
\* next analysis: the fragments and ranges of the edit are still there
C24_WitnessStale ==
    /\ lastOp = "analyze"
    /\ edits = 1
    /\ \E i \in 1..Len(primers) :
          /\ primers[i].orientation = "not split"
          /\ primers[i].hairpin3 # Undefined
          /\ primers[i].left # UndefinedStr
          /\ primers[i].leftStart # JsUndefined

-----------------------------------------------------------------------------
(* Position edits on a split composite primer *)

\* a and b are coordinates with 0 <= a <= b <= length of the gene
InRange(a, b) == a >= 0 /\ a <= b /\ b <= Len(gene)

\* this step is an edit that moved the left range of primer i
LeftMoved(i) ==
    /\ lastOp' = "edit"
    /\ primers[i].isInner
    /\ <<primers'[i].leftStart, primers'[i].leftEnd>>
          # <<primers[i].leftStart, primers[i].leftEnd>>

\* this step is an edit that moved the right range of primer i
RightMoved(i) ==
    /\ lastOp' = "edit"
    /\ primers[i].isInner
    /\ <<primers'[i].rightStart, primers'[i].rightEnd>>
          # <<primers[i].rightStart, primers[i].rightEnd>>

\* C25: a position edit on one half of a split composite primer with
\* in-range coordinates (0 <= start <= end <= gene length) sets that half to
\* the gene slice at the new coordinates, reverse-complemented for the left
\* half and verbatim for the right half, leaves the other half and its range
\* unchanged, sets seq to left followed by right and replaces hairpin3 and
\* hairpin5 with scans of the new seq.
C25_HalfEdit ==
    [][\A i \in 1..Len(primers) :
          /\ (LeftMoved(i) /\ InRange(primers'[i].leftStart, primers'[i].leftEnd)) =>
                /\ primers'[i].left =
                      revcomp(Range(gene, primers'[i].leftStart, primers'[i].leftEnd))
                /\ primers'[i].right = primers[i].right
                /\ primers'[i].rightStart = primers[i].rightStart
                /\ primers'[i].rightEnd = primers[i].rightEnd
                /\ primers'[i].seq = primers'[i].left \o primers'[i].right
                /\ FreshScans(primers'[i])
          /\ (RightMoved(i) /\ InRange(primers'[i].rightStart, primers'[i].rightEnd)) =>
                /\ primers'[i].right =
                      Range(gene, primers'[i].rightStart, primers'[i].rightEnd)
                /\ primers'[i].left = primers[i].left
                /\ primers'[i].leftStart = primers[i].leftStart
                /\ primers'[i].leftEnd = primers[i].leftEnd
                /\ primers'[i].seq = primers'[i].left \o primers'[i].right
                /\ FreshScans(primers'[i])]_vars

\* the left range of the FIP moved from [8, 19) to [9, 19): left is the
\* reverse complement of gene[9, 19) and seq is left followed by the old right
C25_Witness ==
    /\ lastOp = "edit"
    /\ \E i \in 1..Len(primers) :
          /\ primers[i].name = "FIP"
          /\ primers[i].leftStart = 9
          /\ primers[i].leftEnd = 19
          /\ primers[i].left = revcomp(Range(gene, 9, 19))
          /\ primers[i].left # Range(gene, 9, 19)
          /\ primers[i].right = FragmentTwo
          /\ primers[i].seq = primers[i].left \o FragmentTwo

-----------------------------------------------------------------------------
(* The overlap warning across position edits (ui.js 343-417)               *)

MaxOverlapEdits == 2

\* three regular primers that bind apart from each other
OverlapTexts == {<<F3Line, B2Line, B3Line>>}

InitOverlap ==
    /\ gene = cleanSequence(TheGene)
    /\ primers \in {parsePrimers(text) : text \in OverlapTexts}
    /\ rendered = FALSE
    /\ lastOp = "init"
    /\ edits = 0
    /\ dimers = << >>
    /\ runs = 0
    /\ overlapWarning = << >>
    /\ fn = "none"
    /\ arg = Idle
    /\ ret = Idle

EditOverlap == EditWithin(MaxOverlapEdits)

NextOverlap == Analyze \/ EditOverlap

SpecOverlap == InitOverlap /\ [][NextOverlap]_vars

\* the two ranges a warning message names overlap in the primer list ps
MessageHolds(m, ps) ==
    \E i, j \in 1..Len(ps) :
        /\ i # j
        /\ ps[i].name = m.changed
        /\ ps[j].name = m.comp
        /\ \E a \in 1..Len(OverlapRanges(ps[i])), b \in 1..Len(OverlapRanges(ps[j])) :
              /\ OverlapRanges(ps[i])[a].part = m.changedPart
              /\ OverlapRanges(ps[j])[b].part = m.compPart
              /\ rangesOverlap(OverlapRanges(ps[i])[a].start, OverlapRanges(ps[i])[a].end,
                               OverlapRanges(ps[j])[b].start, OverlapRanges(ps[j])[b].end)

\* C26: once a position edit has raised the overlap warning, the warning
\* stays displayed across every later step after which the ranges it names
\* still overlap; it is cleared only by an edit after which they no longer
\* overlap.
C26_WarningPersists ==
    [][(/\ overlapWarning # << >>
        /\ \E k \in 1..Len(overlapWarning) : MessageHolds(overlapWarning[k], primers'))
       => overlapWarning' # << >>]_vars

\* an edit raised the warning for two primers whose ranges overlap
C26_Witness ==
    /\ lastOp = "edit"
    /\ overlapWarning # << >>
    /\ \A k \in 1..Len(overlapWarning) : MessageHolds(overlapWarning[k], primers)

-----------------------------------------------------------------------------
(* The 5' scan as the mirror image of the 3' scan (hairpin.js 22-125)      *)

\* C27: for a sequence s over A, C, G, T, checkHairpin5Prime(s) finds a
\* hairpin exactly when checkHairpin3Prime(revcomp(s)) finds one; both then
\* report the same stemLength and loopLength, and the 5' ranges of s are the
\* 3' ranges of revcomp(s) mirrored by i -> Len(s) - i.
C27_Mirror ==
    (/\ fn = "hairpin"
     /\ ret.hp5 # Undefined
     /\ \A i \in 1..Len(arg) : arg[i] \in DNA)
    => LET n == Len(arg)
           hp5 == ret.hp5
           hp3 == checkHairpin3Prime(revcomp(arg))
       IN  /\ (hp5 = Null) <=> (hp3 = Null)
           /\ hp5 # Null =>
                 /\ hp5.stemLength = hp3.stemLength
                 /\ hp5.loopLength = hp3.loopLength
                 /\ hp5.pos5PrimeStart = n - hp3.pos3PrimeEnd
                 /\ hp5.pos5PrimeEnd = n - hp3.pos3PrimeStart
                 /\ hp5.posDownstreamStart = n - hp3.posUpstreamEnd
                 /\ hp5.posDownstreamEnd = n - hp3.posUpstreamStart

\* a 5' hairpin found in a sequence longer than the scan window whose own
\* 3' scan finds nothing, while the 3' scan of its reverse complement does
C27_Witness ==
    /\ fn = "hairpin"
    /\ ret.hp5 \notin {Undefined, Null}
    /\ ret.hp3 = Null
    /\ Len(arg) > ScanLen
    /\ \A i \in 1..Len(arg) : arg[i] \in DNA
    /\ checkHairpin3Prime(revcomp(arg)) # Null
    /\ checkHairpin3Prime(revcomp(arg)).posUpstreamEnd
          = Len(arg) - ret.hp5.posDownstreamStart

\* neither scan finds a hairpin although the sequence's own 3' scan does
C27_WitnessNone ==
    /\ fn = "hairpin"
    /\ ret.hp5 = Null
    /\ ret.hp3 \notin {Undefined, Null}
    /\ \A i \in 1..Len(arg) : arg[i] \in DNA
    /\ checkHairpin3Prime(revcomp(arg)) = Null

-----------------------------------------------------------------------------
(* When checkDimer emits a record (part_000 214-262)                       *)

\* a has at least MinMatch symbols and the reverse complement of its last
\* MinMatch symbols occurs in b
TerminalBinds(a, b) ==
    /\ Len(a) >= MinMatch
    /\ Occurrences(b, revcomp(LastK(a, MinMatch))) # {}

\* C28: with the default minMatch of 3, checkDimer emits a record for the
\* direction A-into-B exactly when A has at least 3 symbols and the reverse
\* complement of its last 3 symbols occurs in B; it returns no record exactly
\* when neither primer's terminal 3-mer has its reverse complement in the other.
C28_RecordIffTerminal ==
    (fn = "dimer" /\ ret # Undefined) =>
        /\ (RecordsOf("p1_to_p2") # << >>) <=> TerminalBinds(arg.p1Seq, arg.p2Seq)
        /\ (RecordsOf("p2_to_p1") # << >>) <=> TerminalBinds(arg.p2Seq, arg.p1Seq)
        /\ (ret.dimers = << >>) <=>
              (~TerminalBinds(arg.p1Seq, arg.p2Seq) /\ ~TerminalBinds(arg.p2Seq, arg.p1Seq))

\* the last 3 symbols of the first primer bind the second one and no longer
\* end does, while the second primer's end binds nothing
C28_Witness ==
    /\ fn = "dimer"
    /\ ret # Undefined
    /\ Len(ret.dimers) = 1
    /\ ret.dimers[1].direction = "p1_to_p2"
    /\ ret.dimers[1].matchLength = MinMatch
    /\ Len(arg.p1Seq) > MinMatch
    /\ Len(arg.p2Seq) >= MinMatch
    /\ ~TerminalBinds(arg.p2Seq, arg.p1Seq)

\* no record: one primer is shorter than 3 symbols, the other one's end
\* has no partner
C28_WitnessNone ==
    /\ fn = "dimer"
    /\ ret # Undefined
    /\ ret.dimers = << >>
    /\ Len(arg.p1Seq) > MinMatch
    /\ Len(arg.p2Seq) < MinMatch

-----------------------------------------------------------------------------
(* Re-entering the value an input already shows (ui.js 258-304)            *)

\* seq, left, right and every range of q are those of p
SameSeqAndRanges(p, q) ==
    /\ q.seq = p.seq
    /\ q.left = p.left
    /\ q.right = p.right
    /\ q.start = p.start
    /\ q.end = p.end
    /\ q.leftStart = p.leftStart
    /\ q.leftEnd = p.leftEnd
    /\ q.rightStart = p.rightStart
    /\ q.rightEnd = p.rightEnd

\* this step is the edit of input (part, pos) of primer i to the value it shows
Reentered(i, part, pos) ==
    /\ lastOp' = "edit"
    /\ HasControls(primers[i], part)
    /\ primers' = [primers EXCEPT
          ![i] = handlePositionChange(gene, primers[i], part, pos,
                                      Displayed(primers[i], part, pos))]

\* C29: right after analyze, a position edit that re-enters the current
\* value of a coordinate of a bound primer leaves the primer's seq, left,
\* right and all its ranges unchanged, for regular primers in either
\* orientation and for FIP/BIP split under either hypothesis.
C29_ReenterKeeps ==
    [][\A i \in 1..Len(primers), part \in {"left", "right", "none"},
          pos \in {"start", "end"} :
          (lastOp = "analyze" /\ Reentered(i, part, pos))
              => SameSeqAndRanges(primers[i], primers'[i])]_vars

-----------------------------------------------------------------------------
(* The range and the sequence of a regular primer (ui.js 301-316)          *)

\* C30: after any sequence of analyses and position edits with integer
\* values, every regular primer bound "forward" or "reverse (RC)" satisfies
\* end - start = length of seq, with seq equal to gene[start, end) when
\* forward and to its reverse complement when reverse.  (Stated for the
\* ranges with start <= end.)
C30_RangeIsSeq ==
    \A i \in 1..Len(primers) :
        (/\ BoundSimple(primers[i])
         /\ primers[i].start # JsNaN
         /\ primers[i].end # JsNaN
         /\ primers[i].start <= primers[i].end)
        => /\ primers[i].end - primers[i].start = Len(primers[i].seq)
           /\ RangeInGene(primers[i])
           /\ primers[i].seq =
                 (IF primers[i].orientation = "forward"
                  THEN Range(gene, primers[i].start, primers[i].end)
                  ELSE revcomp(Range(gene, primers[i].start, primers[i].end)))

====
